---------------------------- MODULE Spec2Model ----------------------------
(***************************************************************************)
(* Model of the trading bot's Risk Guard (src/src/risk_manager.py), its    *)
(* Position Lifecycle Manager (src/src/position.py) and the orchestrator   *)
(* that drives them (src/bot.py).                                          *)
(*                                                                         *)
(* Units.  Python floats are modelled by exact integer arithmetic:         *)
(*   - time is counted in whole hours since an epoch at 00:00 UTC;         *)
(*   - percentages are in hundredths of a percent (2.0 % = 200);           *)
(*   - prices are in ticks, quantities in lots, money in tick x lot, so    *)
(*     price x quantity is an amount of money.                             *)
(***************************************************************************)
EXTENDS Integers, Sequences, FiniteSets, TLC

VARIABLES
    now,        \* datetime.now(timezone.utc), in hours
    risk_mgr,   \* the RiskManager's fields
    pos_managers,   \* TradingBot.pos_managers: the PositionManager fields per symbol
    last_processed_candle_ts,   \* TradingBot.last_processed_candle_ts
    exchange,   \* the exchange's position per symbol
    server_stops,   \* the protective stop prices last sent to the exchange per symbol
    trades_logged,  \* number of trade records written by bot_logger.log_trade
    ev,         \* the last operation performed, with its inputs and results
    arg,        \* the arguments of a pure function under test, or of a call in progress
    ret         \* what the pure function returned for arg

botVars == <<pos_managers, last_processed_candle_ts, exchange, server_stops,
             trades_logged>>
vars == <<now, risk_mgr, botVars, ev, arg, ret>>

-----------------------------------------------------------------------------
(* Bounds of the model *)

MaxNow == 27            \* the clock stops advancing here
MaxRecorded == 5        \* record_trade calls per UTC day in the unit-level specifications
MaxClock == 23          \* the bot's clock stops advancing here
MaxTrades == 1          \* the trade log holds at most this many records
MaxFailClock == 24      \* the clock of the specification with failing ticks stops here
MaxLockoutClock == 26   \* the clock of the specification of the stop-loss lockout stops here
MaxPosClock == 48       \* the clock of the PositionManager's unit-level specification stops here

-----------------------------------------------------------------------------
(* Configuration: src/src/config.py defaults *)

MAX_DAILY_LOSS_PCT == 300
MAX_DAILY_TRADES == 5
COOLDOWN_AFTER_SL_STREAK == 3
COOLDOWN_HOURS == 2
ENFORCE_DAILY_LOSS_LIMIT == TRUE
LEVERAGE == 1
POSITION_SIZE_PCT == 500
HIGH_CONFIDENCE_SIZE_PCT == 800
MAX_POSITION_SIZE_PCT == 1000
HIGH_CONFIDENCE_THRESHOLD == 3
MAX_TOTAL_EXPOSURE_PCT == 3000
STOP_LOSS_PCT == 200
TAKE_PROFIT_PCT == 400
ENABLE_TRAILING_STOP == TRUE
TRAILING_STOP_ACTIVATE_PCT == 350
TRAILING_STOP_CALLBACK_PCT == 200
TIME_EXIT_HOURS == 48
PYRAMID_MAX_ADDS == 2
PYRAMID_ADD_SIZE_MULT == 5
PYRAMID_MIN_PROFIT_PCT == 30
MIN_ENTRY_CONFIDENCE == 3
MAX_OPEN_POSITIONS == 10
TRADE_ON_CANDLE_CLOSE_ONLY == TRUE
SCALP_MODE == FALSE
SCALP_STOP_LOSS_PCT == 80
SCALP_TAKE_PROFIT_PCT == 140
SCALP_FEE_BUFFER_PCT == 15
RECENT_SL_LOOKBACK == 3
MIN_VOLUME_RATIO == 30  \* 0.3, in hundredths
MAX_SPREAD_MULTIPLIER == 3
BALANCE_UTILIZATION_PCT == 90   \* in whole percent
MIN_RESERVE_USDT == 10          \* in money units
SAFETY_HAIRCUT_PCT == 5         \* in whole percent
HoursPerDay == 24

NoTime == -1            \* None for an optional datetime

ExitReasons == {"SL_HIT", "TP_HIT", "TRAILING_STOP", "SIGNAL_REVERSE", "TIME_EXIT",
                "MANUAL_CLOSE", "SERVER_SL", "SERVER_TP", "SERVER_CLOSE"}

\* datetime.strftime("%Y-%m-%d"): the UTC date of a time
Today(t) == t \div HoursPerDay

-----------------------------------------------------------------------------
(* The last operation *)

NoFilters == [recent_sl |-> FALSE, low_volume |-> FALSE, already_in_position |-> FALSE,
              passed |-> FALSE]

NoEv == [op |-> "init", pnl |-> 0, reason |-> "", ok |-> FALSE, res |-> "",
         reset |-> FALSE, log |-> "", sym |-> "", order |-> "", filled |-> FALSE,
         equity |-> 0, price |-> 0, signal |-> 0,
         qty |-> 0, margin |-> 0, side |-> "", stop_ok |-> TRUE,
         rows |-> 0, vol_ratio |-> 0, has_position |-> FALSE, filters |-> NoFilters]

NoArg == [fn |-> ""]
NoRet == [fn |-> ""]

-----------------------------------------------------------------------------
(* RiskManager *)

\* RiskManager.__init__, which ends with _check_daily_reset()
RiskInit(t) ==
    [daily_pnl |-> 0, daily_trade_count |-> 0, consecutive_sl |-> 0,
     cooldown_until |-> NoTime, last_sl_times |-> <<>>, daily_reset_date |-> Today(t)]

\* A daily reset that zeroes the daily P&L and trade count only
check_daily_reset_counters_only(r, t) ==
    IF r.daily_reset_date # Today(t)
    THEN [r EXCEPT !.daily_pnl = 0, !.daily_trade_count = 0, !.daily_reset_date = Today(t)]
    ELSE r

\* A daily reset that carries the stop-loss streak over to the next day
check_daily_reset_keeps_streak(r, t) ==
    IF r.daily_reset_date # Today(t)
    THEN [daily_pnl |-> 0, daily_trade_count |-> 0, consecutive_sl |-> r.consecutive_sl,
          cooldown_until |-> NoTime, last_sl_times |-> <<>>, daily_reset_date |-> Today(t)]
    ELSE r

\* RiskManager._check_daily_reset
check_daily_reset(r, t) ==
    IF r.daily_reset_date # Today(t)
    THEN [daily_pnl |-> 0, daily_trade_count |-> 0, consecutive_sl |-> 0,
          cooldown_until |-> NoTime, last_sl_times |-> <<>>, daily_reset_date |-> Today(t)]
    ELSE r

\* RiskManager._check_daily_reset: whether the call resets (and logs the reset)
did_reset(r, t) == r.daily_reset_date # Today(t)

\* A record_trade that leaves the streak alone on a non-stop-loss exit
record_trade_keeps_streak(r, t, pnl_pct, exit_reason) ==
    LET r0 == check_daily_reset(r, t)
        r1 == [r0 EXCEPT !.daily_pnl = @ + pnl_pct, !.daily_trade_count = @ + 1]
    IN  IF exit_reason = "SL_HIT"
        THEN LET r2 == [r1 EXCEPT !.consecutive_sl = @ + 1,
                                  !.last_sl_times = Append(@, t)]
             IN  IF r2.consecutive_sl >= COOLDOWN_AFTER_SL_STREAK
                 THEN [r2 EXCEPT !.cooldown_until = t + COOLDOWN_HOURS]
                 ELSE r2
        ELSE r1

\* A record_trade that counts a server-side stop-loss as a stop-loss
record_trade_server_sl_counts(r, t, pnl_pct, exit_reason) ==
    LET r0 == check_daily_reset(r, t)
        r1 == [r0 EXCEPT !.daily_pnl = @ + pnl_pct, !.daily_trade_count = @ + 1]
    IN  IF exit_reason \in {"SL_HIT", "SERVER_SL"}
        THEN LET r2 == [r1 EXCEPT !.consecutive_sl = @ + 1,
                                  !.last_sl_times = Append(@, t)]
             IN  IF r2.consecutive_sl >= COOLDOWN_AFTER_SL_STREAK
                 THEN [r2 EXCEPT !.cooldown_until = t + COOLDOWN_HOURS]
                 ELSE r2
        ELSE [r1 EXCEPT !.consecutive_sl = 0]

\* RiskManager.record_trade
record_trade(r, t, pnl_pct, exit_reason) ==
    LET r0 == check_daily_reset(r, t)
        r1 == [r0 EXCEPT !.daily_pnl = @ + pnl_pct, !.daily_trade_count = @ + 1]
    IN  IF exit_reason = "SL_HIT"
        THEN LET r2 == [r1 EXCEPT !.consecutive_sl = @ + 1,
                                  !.last_sl_times = Append(@, t)]
             IN  IF r2.consecutive_sl >= COOLDOWN_AFTER_SL_STREAK
                 THEN [r2 EXCEPT !.cooldown_until = t + COOLDOWN_HOURS]
                 ELSE r2
        ELSE [r1 EXCEPT !.consecutive_sl = 0]

\* A can_trade whose daily loss limit excludes the boundary
can_trade_exclusive_limit(r, t) ==
    LET r0 == check_daily_reset(r, t)
    IN  IF ENFORCE_DAILY_LOSS_LIMIT /\ r0.daily_pnl < -MAX_DAILY_LOSS_PCT
        THEN [ok |-> FALSE, reason |-> "daily_loss", risk |-> r0, log |-> ""]
        ELSE IF r0.daily_trade_count >= MAX_DAILY_TRADES
        THEN [ok |-> FALSE, reason |-> "max_trades", risk |-> r0, log |-> ""]
        ELSE IF r0.cooldown_until # NoTime /\ t < r0.cooldown_until
        THEN [ok |-> FALSE, reason |-> "cooldown", risk |-> r0, log |-> ""]
        ELSE IF r0.cooldown_until # NoTime
        THEN [ok |-> TRUE, reason |-> "OK", log |-> "cooldown_released",
              risk |-> [r0 EXCEPT !.cooldown_until = NoTime, !.consecutive_sl = 0]]
        ELSE [ok |-> TRUE, reason |-> "OK", risk |-> r0, log |-> ""]

\* A can_trade that releases an expired cooldown without zeroing the streak
can_trade_keeps_streak(r, t) ==
    LET r0 == check_daily_reset(r, t)
    IN  IF ENFORCE_DAILY_LOSS_LIMIT /\ r0.daily_pnl <= -MAX_DAILY_LOSS_PCT
        THEN [ok |-> FALSE, reason |-> "daily_loss", risk |-> r0, log |-> ""]
        ELSE IF r0.daily_trade_count >= MAX_DAILY_TRADES
        THEN [ok |-> FALSE, reason |-> "max_trades", risk |-> r0, log |-> ""]
        ELSE IF r0.cooldown_until # NoTime /\ t < r0.cooldown_until
        THEN [ok |-> FALSE, reason |-> "cooldown", risk |-> r0, log |-> ""]
        ELSE IF r0.cooldown_until # NoTime
        THEN [ok |-> TRUE, reason |-> "OK", log |-> "cooldown_released",
              risk |-> [r0 EXCEPT !.cooldown_until = NoTime]]
        ELSE [ok |-> TRUE, reason |-> "OK", risk |-> r0, log |-> ""]

\* RiskManager.can_trade: the (ok, reason) pair and the fields after the call
can_trade(r, t) ==
    LET r0 == check_daily_reset(r, t)
    IN  IF ENFORCE_DAILY_LOSS_LIMIT /\ r0.daily_pnl <= -MAX_DAILY_LOSS_PCT
        THEN [ok |-> FALSE, reason |-> "daily_loss", risk |-> r0, log |-> ""]
        ELSE IF r0.daily_trade_count >= MAX_DAILY_TRADES
        THEN [ok |-> FALSE, reason |-> "max_trades", risk |-> r0, log |-> ""]
        ELSE IF r0.cooldown_until # NoTime /\ t < r0.cooldown_until
        THEN [ok |-> FALSE, reason |-> "cooldown", risk |-> r0, log |-> ""]
        ELSE IF r0.cooldown_until # NoTime
        THEN [ok |-> TRUE, reason |-> "OK", log |-> "cooldown_released",
              risk |-> [r0 EXCEPT !.cooldown_until = NoTime, !.consecutive_sl = 0]]
        ELSE [ok |-> TRUE, reason |-> "OK", risk |-> r0, log |-> ""]

-----------------------------------------------------------------------------
(* Position sizing and the exposure cap (RiskManager, continued)            *)

\* int(x): a quotient truncated toward zero
Trunc(n, d) == IF n >= 0 THEN n \div d ELSE -((-n) \div d)

Min(a, b) == IF a <= b THEN a ELSE b
Max(a, b) == IF a >= b THEN a ELSE b

PctDen == 10000         \* hundredths of a percent in 100 %
HundredPct == 100       \* whole percent in 100 %
MultDen == 10           \* a size multiplier is given in tenths
MarginDen == 100000     \* a margin is carried in units of 1 / (PctDen x MultDen)
BalanceSafetyPct == 9500 \* the 0.95 of "available_balance * 0.95"
NoBalance == -1         \* available_balance = None
PriceDen == 12          \* an entry price is carried in units of 1 / PriceDen tick
QtyStep == 1            \* the instrument's qty_step, in lots
MinQty == 1             \* the instrument's min_qty, in lots

\* utils.round_qty, int(qty / step_size) * step_size, for a quantity
\* qty_num / qty_den; quantities and step sizes are in lots
round_qty(qty_num, qty_den, step_size) == Trunc(qty_num, qty_den * step_size) * step_size

\* RiskManager.calc_position_size: the margin, in units of 1 / PctDen
calc_position_size(equity, confidence) ==
    LET size_pct == IF confidence >= HIGH_CONFIDENCE_THRESHOLD
                    THEN HIGH_CONFIDENCE_SIZE_PCT
                    ELSE POSITION_SIZE_PCT
    IN  equity * Min(size_pct, MAX_POSITION_SIZE_PCT)

\* A sizing that caps the margin before the size multiplier is applied and
\* never looks at the available balance
calc_qty_from_equity_cap_first(equity, confidence, mark_price, qty_step, min_qty, leverage, size_multiplier, available_balance) ==
    LET lev == IF leverage # 0 THEN leverage ELSE LEVERAGE
    IN  IF equity <= 0 \/ mark_price <= 0
        THEN [qty |-> 0, reason |-> "invalid_equity_or_price", margin |-> 0]
        ELSE
        LET max_margin == equity * MAX_POSITION_SIZE_PCT * MultDen
            m0 == Min(calc_position_size(equity, confidence) * MultDen, max_margin)
            margin == (m0 \div MultDen) * Max(size_multiplier, 0)
            qty == round_qty(margin * lev, mark_price * MarginDen, qty_step)
        IN  IF qty < min_qty
            THEN [qty |-> 0, reason |-> "below_min_qty", margin |-> margin]
            ELSE [qty |-> qty, reason |-> "ok", margin |-> margin]

\* RiskManager.calc_qty_from_equity: (qty, detail["reason"]); leverage = 0 and
\* available_balance = NoBalance stand for None; margin is detail["margin_usdt"]
\* in units of 1 / MarginDen
calc_qty_from_equity(equity, confidence, mark_price, qty_step, min_qty, leverage, size_multiplier, available_balance) ==
    LET lev == IF leverage # 0 THEN leverage ELSE LEVERAGE
    IN  IF equity <= 0 \/ mark_price <= 0
        THEN [qty |-> 0, reason |-> "invalid_equity_or_price", margin |-> 0]
        ELSE
        LET m0 == calc_position_size(equity, confidence) * Max(size_multiplier, 0)
            max_margin == equity * MAX_POSITION_SIZE_PCT * MultDen
            m1 == IF m0 > max_margin THEN max_margin ELSE m0
            usable == available_balance * BalanceSafetyPct * MultDen
            margin == IF available_balance # NoBalance /\ available_balance > 0
                         /\ m1 > usable
                      THEN usable ELSE m1
            qty == round_qty(margin * lev, mark_price * MarginDen, qty_step)
        IN  IF qty < min_qty
            THEN [qty |-> 0, reason |-> "below_min_qty", margin |-> margin]
            ELSE [qty |-> qty, reason |-> "ok", margin |-> margin]

\* A sizing that hands out the minimum quantity when the rounded quantity is
\* below it
calc_qty_from_balance_min_clamp(available_balance, mark_price, qty_step, min_qty, leverage) ==
    LET lev == IF leverage # 0 THEN leverage ELSE LEVERAGE
        usable == available_balance - MIN_RESERVE_USDT
    IN  IF usable <= 0 \/ mark_price <= 0
        THEN [qty |-> 0, reason |-> "insufficient_balance", notional |-> 0]
        ELSE
        LET notional == usable * BALANCE_UTILIZATION_PCT * (HundredPct - SAFETY_HAIRCUT_PCT)
            qty == round_qty(notional * lev, mark_price * PctDen, qty_step)
        IN  [qty |-> Max(qty, min_qty), reason |-> "ok", notional |-> notional]

\* RiskManager.calc_qty_from_balance: (qty, detail["reason"]); leverage = 0
\* stands for None; notional is detail["notional"] in units of 1 / PctDen
calc_qty_from_balance(available_balance, mark_price, qty_step, min_qty, leverage) ==
    LET lev == IF leverage # 0 THEN leverage ELSE LEVERAGE
        usable == available_balance - MIN_RESERVE_USDT
    IN  IF usable <= 0 \/ mark_price <= 0
        THEN [qty |-> 0, reason |-> "insufficient_balance", notional |-> 0]
        ELSE
        LET notional == usable * BALANCE_UTILIZATION_PCT * (HundredPct - SAFETY_HAIRCUT_PCT)
            qty == round_qty(notional * lev, mark_price * PctDen, qty_step)
        IN  IF qty < min_qty
            THEN [qty |-> 0, reason |-> "below_min_qty", notional |-> notional]
            ELSE [qty |-> qty, reason |-> "ok", notional |-> notional]

\* RiskManager.check_total_exposure; current_margin_total is a sum of
\* entry_price x qty, so it comes in units of 1 / PriceDen
check_total_exposure(current_margin_total, total_equity) ==
    IF total_equity <= 0
    THEN [ok |-> FALSE, reason |-> "equity is zero"]
    ELSE IF current_margin_total * PctDen >= MAX_TOTAL_EXPOSURE_PCT * total_equity * PriceDen
    THEN [ok |-> FALSE, reason |-> "exposure"]
    ELSE [ok |-> TRUE, reason |-> "OK"]

-----------------------------------------------------------------------------
(* PositionManager (one per symbol)                                         *)

Inf == 1000000          \* float("inf")
FeeRateNum == 55        \* fee_rate x 100 % = 0.055 % = FeeRateNum / FeeRateDen
FeeRateDen == 10        \* hundredths of a percent

\* PositionManager.__init__ and PositionManager._reset: the per-position fields.
\* entry_price is an average after add_position, so it is kept in units of
\* 1 / PriceDen tick; the other prices are market prices, in ticks.
MgrInit ==
    [trade_id |-> NoTime, entry_time |-> NoTime, entry_price |-> 0, side |-> "",
     qty |-> 0, add_count |-> 0, trailing_active |-> FALSE, trailing_high |-> 0,
     running_high_price |-> 0, running_low_price |-> Inf]

\* A has_position that never sees a position
has_position_never(m) == FALSE

\* PositionManager.has_position
has_position(m) == m.side # ""

\* utils.pct_change, in hundredths of a percent, truncated toward zero
pct_change(entry, current, side) ==
    IF entry = 0 THEN 0
    ELSE IF side = "Buy" THEN Trunc((current - entry) * PctDen, entry)
    ELSE Trunc((entry - current) * PctDen, entry)

\* whether utils.pct_change is below zero (exact: no truncation involved)
pct_negative(entry, current, side) ==
    entry # 0 /\ (IF side = "Buy" THEN current < entry ELSE current > entry)

\* round(x): the integer nearest to n / d, ties to the even one
RoundHalfEven(n, d) ==
    LET q == n \div d
        r == n % d
    IN  IF 2 * r < d THEN q
        ELSE IF 2 * r > d THEN q + 1
        ELSE IF q % 2 = 0 THEN q ELSE q + 1

\* utils.round_price with the symbol's tick size, for a price price_num / price_den
round_price(price_num, price_den) == RoundHalfEven(price_num, price_den)

\* PositionManager._calc_sl_price, in units of 1 / (PriceDen x PctDen) tick
calc_sl_price(m) ==
    LET sl_pct == (IF SCALP_MODE THEN SCALP_STOP_LOSS_PCT ELSE STOP_LOSS_PCT)
                   + (IF SCALP_MODE THEN SCALP_FEE_BUFFER_PCT ELSE 0)
    IN  IF m.side = "Buy" THEN m.entry_price * (PctDen - sl_pct)
        ELSE m.entry_price * (PctDen + sl_pct)

\* A take-profit price on the wrong side of the entry price
calc_tp_price_against(m) ==
    IF m.side = "Buy" THEN m.entry_price * (PctDen - TAKE_PROFIT_PCT)
    ELSE m.entry_price * (PctDen + TAKE_PROFIT_PCT)

\* PositionManager._calc_tp_price, in units of 1 / (PriceDen x PctDen) tick
calc_tp_price(m) ==
    LET tp_pct == IF SCALP_MODE
                  THEN Max(SCALP_TAKE_PROFIT_PCT - SCALP_FEE_BUFFER_PCT, 10)
                  ELSE TAKE_PROFIT_PCT
    IN  IF m.side = "Buy" THEN m.entry_price * (PctDen + tp_pct)
        ELSE m.entry_price * (PctDen - tp_pct)

\* What one manager call asks of the exchange: a market order (place_order or
\* close_position) and whether it went through, and the stop prices pushed by
\* set_trading_stop / update_stop_loss (0: not pushed)
NoCalls == [order |-> "", filled |-> FALSE, side |-> "", qty |-> 0,
            set_sl |-> 0, set_tp |-> 0]

NoTrade == [exit_reason |-> ""]

\* An open_position without the minimum-quantity check
open_position_no_min(m, side, margin_usdt, current_price, qty_override, min_qty, order_ok, t) ==
    LET qty == IF qty_override > 0 THEN qty_override
               ELSE round_qty(margin_usdt * LEVERAGE, current_price, QtyStep)
        m1 == [trade_id |-> t, entry_time |-> t,
               entry_price |-> current_price * PriceDen,
               side |-> side, qty |-> qty, add_count |-> 0,
               trailing_active |-> FALSE, trailing_high |-> current_price,
               running_high_price |-> current_price,
               running_low_price |-> current_price]
    IN  IF ~order_ok
        THEN [ok |-> FALSE, mgr |-> m,
              calls |-> [NoCalls EXCEPT !.order = "place_order", !.side = side,
                                        !.qty = qty]]
        ELSE [ok |-> TRUE, mgr |-> m1,
              calls |-> [order |-> "place_order", filled |-> TRUE, side |-> side,
                         qty |-> qty,
                         set_sl |-> round_price(calc_sl_price(m1), PriceDen * PctDen),
                         set_tp |-> round_price(calc_tp_price(m1), PriceDen * PctDen)]]

\* PositionManager.open_position; qty_override = 0 stands for None, order_ok is
\* whether exchange.place_order returned a result
open_position(m, side, margin_usdt, current_price, qty_override, min_qty, order_ok, t) ==
    LET qty == IF qty_override > 0 THEN qty_override
               ELSE round_qty(margin_usdt * LEVERAGE, current_price, QtyStep)
    IN  IF qty < min_qty
        THEN [ok |-> FALSE, mgr |-> m, calls |-> NoCalls]
        ELSE IF ~order_ok
        THEN [ok |-> FALSE, mgr |-> m,
              calls |-> [NoCalls EXCEPT !.order = "place_order", !.side = side,
                                        !.qty = qty]]
        ELSE
        LET m1 == [trade_id |-> t, entry_time |-> t,
                   entry_price |-> current_price * PriceDen,
                   side |-> side, qty |-> qty, add_count |-> 0,
                   trailing_active |-> FALSE, trailing_high |-> current_price,
                   running_high_price |-> current_price,
                   running_low_price |-> current_price]
        IN  [ok |-> TRUE, mgr |-> m1,
             calls |-> [order |-> "place_order", filled |-> TRUE, side |-> side,
                        qty |-> qty,
                        set_sl |-> round_price(calc_sl_price(m1), PriceDen * PctDen),
                        set_tp |-> round_price(calc_tp_price(m1), PriceDen * PctDen)]]

\* A trailing mode that holds only while the profit is at or above the
\* activation threshold
trailing_step_lapses(m, current_price, pnl) ==
    [mgr |-> [m EXCEPT !.trailing_active =
                           ENABLE_TRAILING_STOP /\ pnl >= TRAILING_STOP_ACTIVATE_PCT,
                       !.trailing_high =
                           IF pnl >= TRAILING_STOP_ACTIVATE_PCT THEN current_price ELSE @],
     new_sl |-> 0, fired |-> FALSE]

\* the trailing-stop part of PositionManager.check_exit (lines 152-179): the
\* manager after it, the stop price pushed by update_stop_loss (0: none) and
\* whether the callback retracement was reached
trailing_step(m, current_price, pnl) ==
    LET m1 == IF ENABLE_TRAILING_STOP /\ pnl >= TRAILING_STOP_ACTIVATE_PCT
                 /\ ~m.trailing_active
              THEN [m EXCEPT !.trailing_active = TRUE, !.trailing_high = current_price]
              ELSE m
    IN  IF ~(ENABLE_TRAILING_STOP /\ m1.trailing_active)
        THEN [mgr |-> m1, new_sl |-> 0, fired |-> FALSE]
        ELSE
        LET updated == IF m1.side = "Buy" THEN current_price > m1.trailing_high
                       ELSE current_price < m1.trailing_high
            m2 == IF updated THEN [m1 EXCEPT !.trailing_high = current_price] ELSE m1
            drawdown == pct_change(m2.trailing_high, current_price,
                                   IF m1.side = "Buy" THEN "Buy" ELSE "Sell")
            new_sl == IF ~updated THEN 0
                      ELSE IF m2.side = "Buy"
                      THEN round_price(m2.trailing_high * (PctDen - TRAILING_STOP_CALLBACK_PCT),
                                       PctDen)
                      ELSE round_price(m2.trailing_high * (PctDen + TRAILING_STOP_CALLBACK_PCT),
                                       PctDen)
        IN  [mgr |-> m2, new_sl |-> new_sl,
             fired |-> drawdown <= -TRAILING_STOP_CALLBACK_PCT]

\* A check_exit that looks at the signal reversal before the price triggers
check_exit_signal_first(m, current_price, combined_signal, t) ==
    IF m.side = "" THEN [res |-> "", mgr |-> m, new_sl |-> 0]
    ELSE IF (m.side = "Buy" /\ combined_signal = -1)
            \/ (m.side = "Sell" /\ combined_signal = 1)
    THEN [res |-> "SIGNAL_REVERSE", mgr |-> m, new_sl |-> 0]
    ELSE
    LET pnl == pct_change(m.entry_price, current_price * PriceDen, m.side)
    IN  IF pnl <= -STOP_LOSS_PCT THEN [res |-> "SL_HIT", mgr |-> m, new_sl |-> 0]
        ELSE IF pnl >= TAKE_PROFIT_PCT THEN [res |-> "TP_HIT", mgr |-> m, new_sl |-> 0]
        ELSE
        LET tr == trailing_step(m, current_price, pnl)
        IN  IF tr.fired
            THEN [res |-> "TRAILING_STOP", mgr |-> tr.mgr, new_sl |-> tr.new_sl]
            ELSE IF m.entry_time # NoTime /\ t - m.entry_time >= TIME_EXIT_HOURS
                    /\ pct_negative(m.entry_price, current_price * PriceDen, m.side)
            THEN [res |-> "TIME_EXIT", mgr |-> tr.mgr, new_sl |-> tr.new_sl]
            ELSE [res |-> "", mgr |-> tr.mgr, new_sl |-> tr.new_sl]

\* PositionManager.check_exit: the exit reason ("" for None), the manager after
\* the call and the stop price pushed to the exchange (0: none)
check_exit(m, current_price, combined_signal, t) ==
    IF m.side = "" THEN [res |-> "", mgr |-> m, new_sl |-> 0]
    ELSE
    LET pnl == pct_change(m.entry_price, current_price * PriceDen, m.side)
    IN  IF pnl <= -STOP_LOSS_PCT THEN [res |-> "SL_HIT", mgr |-> m, new_sl |-> 0]
        ELSE IF pnl >= TAKE_PROFIT_PCT THEN [res |-> "TP_HIT", mgr |-> m, new_sl |-> 0]
        ELSE
        LET tr == trailing_step(m, current_price, pnl)
        IN  IF tr.fired
            THEN [res |-> "TRAILING_STOP", mgr |-> tr.mgr, new_sl |-> tr.new_sl]
            ELSE IF (m.side = "Buy" /\ combined_signal = -1)
                    \/ (m.side = "Sell" /\ combined_signal = 1)
            THEN [res |-> "SIGNAL_REVERSE", mgr |-> tr.mgr, new_sl |-> tr.new_sl]
            ELSE IF m.entry_time # NoTime /\ t - m.entry_time >= TIME_EXIT_HOURS
                    /\ pct_negative(m.entry_price, current_price * PriceDen, m.side)
            THEN [res |-> "TIME_EXIT", mgr |-> tr.mgr, new_sl |-> tr.new_sl]
            ELSE [res |-> "", mgr |-> tr.mgr, new_sl |-> tr.new_sl]

\* PositionManager.update_price_extremes
update_price_extremes(m, current_price) ==
    IF m.side = "" \/ current_price <= 0 THEN m
    ELSE [m EXCEPT !.running_high_price = Max(@, current_price),
                   !.running_low_price = Min(@, current_price)]

\* A trade record whose fee is that of the closing order alone
trade_data_exit_fee_only(m, current_price, exit_reason) ==
    LET pnl_pct == pct_change(m.entry_price, current_price * PriceDen, m.side)
        fee_pct == Trunc(LEVERAGE * FeeRateNum * current_price * PriceDen,
                         m.entry_price * FeeRateDen)
    IN  [trade_id |-> m.trade_id, side |-> m.side, entry_price |-> m.entry_price,
         exit_price |-> current_price, quantity |-> m.qty, pnl_pct |-> pnl_pct,
         net_pnl_pct |-> pnl_pct - fee_pct, exit_reason |-> exit_reason]

\* the trade record written by close_position and _log_server_close: the
\* fields the bot's decisions and the risk counters depend on
trade_data(m, current_price, exit_reason) ==
    LET pnl_pct == pct_change(m.entry_price, current_price * PriceDen, m.side)
        fee_pct == Trunc(LEVERAGE * FeeRateNum * (m.entry_price + current_price * PriceDen),
                         m.entry_price * FeeRateDen)
    IN  [trade_id |-> m.trade_id, side |-> m.side, entry_price |-> m.entry_price,
         exit_price |-> current_price, quantity |-> m.qty, pnl_pct |-> pnl_pct,
         net_pnl_pct |-> pnl_pct - fee_pct, exit_reason |-> exit_reason]

\* A close_position that logs the trade without telling the RiskManager
close_position_no_record(m, r, current_price, exit_reason, close_ok, t) ==
    IF m.side = ""
    THEN [trade |-> NoTrade, mgr |-> m, risk |-> r, calls |-> NoCalls]
    ELSE IF ~close_ok
    THEN [trade |-> NoTrade, mgr |-> m, risk |-> r,
          calls |-> [NoCalls EXCEPT !.order = "close_position", !.side = m.side,
                                    !.qty = m.qty]]
    ELSE [trade |-> trade_data(update_price_extremes(m, current_price), current_price,
                               exit_reason),
          mgr |-> MgrInit, risk |-> r,
          calls |-> [NoCalls EXCEPT !.order = "close_position", !.filled = TRUE,
                                    !.side = m.side, !.qty = m.qty]]

\* PositionManager.close_position: the trade record (NoTrade for None), the
\* manager and the RiskManager after the call; close_ok is whether
\* exchange.close_position returned a result
close_position(m, r, current_price, exit_reason, close_ok, t) ==
    IF m.side = ""
    THEN [trade |-> NoTrade, mgr |-> m, risk |-> r, calls |-> NoCalls]
    ELSE IF ~close_ok
    THEN [trade |-> NoTrade, mgr |-> m, risk |-> r,
          calls |-> [NoCalls EXCEPT !.order = "close_position", !.side = m.side,
                                    !.qty = m.qty]]
    ELSE
    LET td == trade_data(update_price_extremes(m, current_price), current_price, exit_reason)
    IN  [trade |-> td, mgr |-> MgrInit,
         risk |-> record_trade(r, t, td.net_pnl_pct, exit_reason),
         calls |-> [NoCalls EXCEPT !.order = "close_position", !.filled = TRUE,
                                   !.side = m.side, !.qty = m.qty]]

\* An add_position that takes the price of the add as the new entry price
add_position_last_price(m, current_price, qty_add, min_qty, order_ok) ==
    IF m.side = "" \/ qty_add <= 0 \/ qty_add < min_qty
    THEN [ok |-> FALSE, mgr |-> m, calls |-> NoCalls]
    ELSE IF ~order_ok
    THEN [ok |-> FALSE, mgr |-> m,
          calls |-> [NoCalls EXCEPT !.order = "place_order", !.side = m.side,
                                    !.qty = qty_add]]
    ELSE
    LET m1 == [m EXCEPT !.entry_price = current_price * PriceDen,
                        !.qty = m.qty + qty_add,
                        !.add_count = @ + 1,
                        !.trailing_high = Max(@, current_price)]
    IN  [ok |-> TRUE, mgr |-> m1,
         calls |-> [order |-> "place_order", filled |-> TRUE, side |-> m.side,
                    qty |-> qty_add,
                    set_sl |-> round_price(calc_sl_price(m1), PriceDen * PctDen),
                    set_tp |-> round_price(calc_tp_price(m1), PriceDen * PctDen)]]

\* An add_position that books the add although the order was rejected
add_position_ignores_rejection(m, current_price, qty_add, min_qty, order_ok) ==
    IF m.side = "" \/ qty_add <= 0 \/ qty_add < min_qty
    THEN [ok |-> FALSE, mgr |-> m, calls |-> NoCalls]
    ELSE
    LET new_qty == m.qty + qty_add
        m1 == [m EXCEPT !.entry_price = Trunc(m.entry_price * m.qty
                                               + current_price * PriceDen * qty_add, new_qty),
                        !.qty = new_qty,
                        !.add_count = @ + 1,
                        !.trailing_high = Max(@, current_price)]
    IN  [ok |-> order_ok, mgr |-> m1,
         calls |-> [order |-> "place_order", filled |-> order_ok, side |-> m.side,
                    qty |-> qty_add,
                    set_sl |-> round_price(calc_sl_price(m1), PriceDen * PctDen),
                    set_tp |-> round_price(calc_tp_price(m1), PriceDen * PctDen)]]

\* PositionManager.add_position
add_position(m, current_price, qty_add, min_qty, order_ok) ==
    IF m.side = "" \/ qty_add <= 0 \/ qty_add < min_qty
    THEN [ok |-> FALSE, mgr |-> m, calls |-> NoCalls]
    ELSE IF ~order_ok
    THEN [ok |-> FALSE, mgr |-> m,
          calls |-> [NoCalls EXCEPT !.order = "place_order", !.side = m.side,
                                    !.qty = qty_add]]
    ELSE
    LET new_qty == m.qty + qty_add
        m1 == [m EXCEPT !.entry_price = Trunc(m.entry_price * m.qty
                                               + current_price * PriceDen * qty_add, new_qty),
                        !.qty = new_qty,
                        !.add_count = @ + 1,
                        !.trailing_high = Max(@, current_price)]
    IN  [ok |-> TRUE, mgr |-> m1,
         calls |-> [order |-> "place_order", filled |-> TRUE, side |-> m.side,
                    qty |-> qty_add,
                    set_sl |-> round_price(calc_sl_price(m1), PriceDen * PctDen),
                    set_tp |-> round_price(calc_tp_price(m1), PriceDen * PctDen)]]

\* exchange.get_position: None when the exchange reports no size
NoPos == [side |-> "", size |-> 0, entry_price |-> 0]

\* A sync_with_exchange that leaves a position found on the exchange alone
sync_with_exchange_no_adopt(m, r, pos, last_price, t) ==
    IF pos = NoPos /\ m.side # ""
    THEN LET pnl_pct == pct_change(m.entry_price, last_price * PriceDen, m.side)
             exit_reason == IF 2 * pnl_pct <= -STOP_LOSS_PCT THEN "SERVER_SL"
                            ELSE IF 2 * pnl_pct >= TAKE_PROFIT_PCT THEN "SERVER_TP"
                            ELSE "SERVER_CLOSE"
             td == trade_data(m, last_price, exit_reason)
         IN  [what |-> "server_close", trade |-> td, mgr |-> MgrInit,
              risk |-> record_trade(r, t, td.net_pnl_pct, exit_reason)]
    ELSE [what |-> "", trade |-> NoTrade, mgr |-> m, risk |-> r]

\* A sync_with_exchange that classifies a server-side close by the whole
\* stop-loss and take-profit percentages
sync_with_exchange_full_threshold(m, r, pos, last_price, t) ==
    IF pos = NoPos
    THEN IF m.side # ""
         THEN LET pnl_pct == pct_change(m.entry_price, last_price * PriceDen, m.side)
                  exit_reason == IF pnl_pct <= -STOP_LOSS_PCT THEN "SERVER_SL"
                                 ELSE IF pnl_pct >= TAKE_PROFIT_PCT THEN "SERVER_TP"
                                 ELSE "SERVER_CLOSE"
                  td == trade_data(m, last_price, exit_reason)
              IN  [what |-> "server_close", trade |-> td, mgr |-> MgrInit,
                   risk |-> record_trade(r, t, td.net_pnl_pct, exit_reason)]
         ELSE [what |-> "", trade |-> NoTrade, mgr |-> m, risk |-> r]
    ELSE IF m.side = ""
         THEN [what |-> "adopt", trade |-> NoTrade, risk |-> r,
               mgr |-> [m EXCEPT !.side = pos.side, !.qty = pos.size,
                                 !.entry_price = pos.entry_price,
                                 !.entry_time = t, !.trade_id = t]]
         ELSE [what |-> "", trade |-> NoTrade, mgr |-> m, risk |-> r]

\* A reconciliation that clears only the identifying fields of the position
sync_with_exchange_partial_reset(m, r, pos, last_price, t) ==
    IF pos = NoPos
    THEN IF m.side # ""
         THEN LET pnl_pct == pct_change(m.entry_price, last_price * PriceDen, m.side)
                  exit_reason == IF 2 * pnl_pct <= -STOP_LOSS_PCT THEN "SERVER_SL"
                                 ELSE IF 2 * pnl_pct >= TAKE_PROFIT_PCT THEN "SERVER_TP"
                                 ELSE "SERVER_CLOSE"
                  td == trade_data(m, last_price, exit_reason)
              IN  [what |-> "server_close", trade |-> td,
                   mgr |-> [m EXCEPT !.side = "", !.qty = 0, !.entry_price = 0,
                                     !.trade_id = NoTime, !.entry_time = NoTime],
                   risk |-> record_trade(r, t, td.net_pnl_pct, exit_reason)]
         ELSE [what |-> "", trade |-> NoTrade, mgr |-> m, risk |-> r]
    ELSE IF m.side = ""
         THEN [what |-> "adopt", trade |-> NoTrade, risk |-> r,
               mgr |-> [m EXCEPT !.side = pos.side, !.qty = pos.size,
                                 !.entry_price = pos.entry_price,
                                 !.entry_time = t, !.trade_id = t]]
         ELSE [what |-> "", trade |-> NoTrade, mgr |-> m, risk |-> r]

\* PositionManager.sync_with_exchange with _log_server_close: pos is what
\* get_position returned and last_price the ticker's price
sync_with_exchange(m, r, pos, last_price, t) ==
    IF pos = NoPos
    THEN IF m.side # ""
         THEN LET pnl_pct == pct_change(m.entry_price, last_price * PriceDen, m.side)
                  exit_reason == IF 2 * pnl_pct <= -STOP_LOSS_PCT THEN "SERVER_SL"
                                 ELSE IF 2 * pnl_pct >= TAKE_PROFIT_PCT THEN "SERVER_TP"
                                 ELSE "SERVER_CLOSE"
                  td == trade_data(m, last_price, exit_reason)
              IN  [what |-> "server_close", trade |-> td, mgr |-> MgrInit,
                   risk |-> record_trade(r, t, td.net_pnl_pct, exit_reason)]
         ELSE [what |-> "", trade |-> NoTrade, mgr |-> m, risk |-> r]
    ELSE IF m.side = ""
         THEN [what |-> "adopt", trade |-> NoTrade, risk |-> r,
               mgr |-> [m EXCEPT !.side = pos.side, !.qty = pos.size,
                                 !.entry_price = pos.entry_price,
                                 !.entry_time = t, !.trade_id = t]]
         ELSE [what |-> "", trade |-> NoTrade, mgr |-> m, risk |-> r]

-----------------------------------------------------------------------------
(* Signal engine, entry filters and the exchange                            *)

\* A plain majority vote: the side with more votes wins
generate_signals_plain_majority(buy_count, sell_count) ==
    [combined_signal |-> IF buy_count >= 2 /\ buy_count > sell_count THEN 1
                         ELSE IF sell_count >= 2 /\ sell_count > buy_count THEN -1
                         ELSE 0,
     confidence |-> IF buy_count > sell_count THEN buy_count ELSE sell_count]

\* strategy.generate_signals on a full history: the majority vote of the four
\* voters, given how many voted +1 and how many voted -1
generate_signals(buy_count, sell_count) ==
    [combined_signal |-> IF buy_count >= 2 /\ sell_count = 0 THEN 1
                         ELSE IF sell_count >= 2 /\ buy_count = 0 THEN -1
                         ELSE 0,
     confidence |-> Max(buy_count, sell_count)]

\* the number of rows generate_signals needs
MinRows == 200
VoterNames == <<"MA", "RSI", "BB", "MTF">>

\* A generate_signals that only refuses an empty history
generate_signals_df_nonempty(rows, ma_val, rsi_val, bb_val, mtf_val) ==
    LET values == <<ma_val, rsi_val, bb_val, mtf_val>>
        buy_count == Cardinality({i \in 1..4 : values[i] = 1})
        sell_count == Cardinality({i \in 1..4 : values[i] = -1})
        vote == generate_signals(buy_count, sell_count)
    IN  IF rows = 0
        THEN [voters |-> [i \in 1..4 |-> [value |-> 0, reason |-> "Insufficient data"]],
              combined_signal |-> 0, buy_count |-> 0, sell_count |-> 0, confidence |-> 0,
              voters_called |-> 0]
        ELSE [voters |-> [i \in 1..4 |-> [value |-> values[i], reason |-> VoterNames[i]]],
              combined_signal |-> vote.combined_signal, buy_count |-> buy_count,
              sell_count |-> sell_count, confidence |-> vote.confidence,
              voters_called |-> 4]

\* strategy.generate_signals(df) for a history of rows rows; ma_val, rsi_val,
\* bb_val and mtf_val are what signal_ma, signal_rsi, signal_bb and signal_mtf
\* return for its last row, each with a reason of its own (here: its name).
\* voters_called counts the voters the call evaluated.
generate_signals_df(rows, ma_val, rsi_val, bb_val, mtf_val) ==
    LET values == <<ma_val, rsi_val, bb_val, mtf_val>>
        buy_count == Cardinality({i \in 1..4 : values[i] = 1})
        sell_count == Cardinality({i \in 1..4 : values[i] = -1})
        vote == generate_signals(buy_count, sell_count)
    IN  IF rows = 0 \/ rows < MinRows
        THEN [voters |-> [i \in 1..4 |-> [value |-> 0, reason |-> "Insufficient data"]],
              combined_signal |-> 0, buy_count |-> 0, sell_count |-> 0, confidence |-> 0,
              voters_called |-> 0]
        ELSE [voters |-> [i \in 1..4 |-> [value |-> values[i], reason |-> VoterNames[i]]],
              combined_signal |-> vote.combined_signal, buy_count |-> buy_count,
              sell_count |-> sell_count, confidence |-> vote.confidence,
              voters_called |-> 4]

\* Entry filters that do not look at the times of the recent stop-losses
check_entry_filters_no_lockout(r, low_volume, has_pos, t) ==
    [recent_sl |-> FALSE, low_volume |-> low_volume, already_in_position |-> has_pos,
     passed |-> ~low_volume /\ ~has_pos]

\* RiskManager.check_entry_filters; low_volume says that the history has at
\* least 20 rows and its last volume ratio is below MIN_VOLUME_RATIO
check_entry_filters(r, low_volume, has_pos, t) ==
    LET recent_sl == \E i \in 1..Len(r.last_sl_times) :
                        r.last_sl_times[i] > t - RECENT_SL_LOOKBACK
    IN  [recent_sl |-> recent_sl, low_volume |-> low_volume,
         already_in_position |-> has_pos,
         passed |-> ~recent_sl /\ ~low_volume /\ ~has_pos]

\* the number of rows check_entry_filters needs to look at the volume
MinVolumeRows == 20

\* A check_entry_filters that looks at the volume of a history of any length
check_entry_filters_df_any_rows(r, rows, vol_ratio, has_pos, t) ==
    check_entry_filters(r, rows # 0 /\ vol_ratio < MIN_VOLUME_RATIO, has_pos, t)

\* RiskManager.check_entry_filters(df, has_position) for a history of rows
\* rows whose last volume_ratio is vol_ratio (in hundredths)
check_entry_filters_df(r, rows, vol_ratio, has_pos, t) ==
    check_entry_filters(r, rows # 0 /\ rows >= MinVolumeRows /\ vol_ratio < MIN_VOLUME_RATIO,
                        has_pos, t)

\* RiskManager.check_spread_filter
check_spread_filter(spread, avg_spread) ==
    ~(avg_spread > 0 /\ spread > avg_spread * MAX_SPREAD_MULTIPLIER)

\* RiskManager.get_status: the dictionary, whose first four entries are read
\* before can_trade() is called for the fifth, and the fields after the call
get_status(r, t) ==
    LET c == can_trade(r, t)
    IN  [status |-> [daily_pnl |-> r.daily_pnl, daily_trade_count |-> r.daily_trade_count,
                     consecutive_sl |-> r.consecutive_sl,
                     cooldown_until |-> r.cooldown_until, can_trade |-> c.ok],
         risk |-> c.risk]

\* the exchange after a filled market order (one-way mode: orders on the
\* opposite side net against the position)
market_order(x, side, qty, price) ==
    IF x.size = 0
    THEN [side |-> side, size |-> qty, entry_price |-> price * PriceDen]
    ELSE IF x.side = side
    THEN [x EXCEPT !.size = @ + qty,
                   !.entry_price = Trunc(x.entry_price * x.size + price * PriceDen * qty,
                                         x.size + qty)]
    ELSE IF qty < x.size THEN [x EXCEPT !.size = @ - qty]
    ELSE IF qty = x.size THEN NoPos
    ELSE [side |-> side, size |-> qty - x.size, entry_price |-> price * PriceDen]

\* the exchange after a filled reduce-only order closing qty of a position
reduce_only_order(x, qty) ==
    IF x.size > qty THEN [x EXCEPT !.size = @ - qty] ELSE NoPos

\* the exchange's position after the orders of one manager call
exchange_after(x, calls, price) ==
    IF ~calls.filled THEN x
    ELSE IF calls.order = "place_order" THEN market_order(x, calls.side, calls.qty, price)
    ELSE IF calls.order = "close_position" THEN reduce_only_order(x, calls.qty)
    ELSE x

\* the protective stop prices last sent for a symbol's position: sl_update is
\* the price check_exit sent through update_stop_loss, calls holds what
\* open_position / add_position sent through set_trading_stop afterwards
NoStops == [sl |-> 0, tp |-> 0]

stops_after(st, mgr_after, sl_update, calls) ==
    IF mgr_after.side = "" THEN NoStops
    ELSE [sl |-> IF calls.set_sl # 0 THEN calls.set_sl
                 ELSE IF sl_update # 0 THEN sl_update ELSE st.sl,
          tp |-> IF calls.set_tp # 0 THEN calls.set_tp ELSE st.tp]

-----------------------------------------------------------------------------
(* BybitExchange (src/src/exchange.py): the order call and its retries.  A  *)
(* response of the client is "ok", "idx_error" (retCode 10001, position idx  *)
(* not matching the position mode) or "error" (any other failure).           *)

DefaultRetries == 3     \* _api_call(func, retries = 3)

\* BybitExchange._get_position_idx
get_position_idx(mode, side) ==
    IF mode = "HEDGE" THEN (IF side = "Buy" THEN 1 ELSE 2) ELSE 0

\* BybitExchange._detect_position_mode: detected is what get_positions shows
\* ("error" when the query fails, which falls back to one-way)
detect_position_mode(detected) == IF detected = "HEDGE" THEN "HEDGE" ELSE "ONE_WAY"

\* A retry loop that treats the position-index error like any other failure
RECURSIVE api_call_retries_idx_error(_, _, _, _)
api_call_retries_idx_error(responses, i, attempt, retries) ==
    IF responses[i] = "ok" THEN [res |-> "ok", last |-> i]
    ELSE IF attempt = retries THEN [res |-> responses[i], last |-> i]
    ELSE api_call_retries_idx_error(responses, i + 1, attempt + 1, retries)

\* A wrapper that makes a single attempt and raises whatever error it gets
api_call_single_attempt(responses, i, attempt, retries) ==
    [res |-> responses[i], last |-> i]

\* BybitExchange._api_call from its attempt-th attempt on, the client
\* answering responses[i] to its i-th invocation: how the call ends ("ok":
\* the result is returned; otherwise the exception is raised) and the
\* invocation it ends with
RECURSIVE api_call(_, _, _, _)
api_call(responses, i, attempt, retries) ==
    IF responses[i] = "ok" THEN [res |-> "ok", last |-> i]
    ELSE IF responses[i] = "idx_error" THEN [res |-> "idx_error", last |-> i]
    ELSE IF attempt = retries THEN [res |-> "error", last |-> i]
    ELSE api_call(responses, i + 1, attempt + 1, retries)

\* BybitExchange.place_order with _retry_with_refreshed_mode: the result
\* ("None" for None), the position mode after the call, the number of
\* invocations of client.place_order made before the mode was refreshed
\* (first) and in all (total), and the positionIdx of each invocation
place_order(side, mode, detected, responses) ==
    LET a1 == api_call(responses, 1, 1, DefaultRetries)
        mode2 == detect_position_mode(detected)
        a2 == api_call(responses, a1.last + 1, 1, DefaultRetries)
    IN  IF a1.res = "idx_error"
        THEN [result |-> IF a2.res = "ok" THEN "ok" ELSE "None", mode |-> mode2,
              refreshed |-> TRUE, first |-> a1.last, total |-> a2.last,
              position_idx |-> [k \in 1..a2.last |->
                                  IF k <= a1.last THEN get_position_idx(mode, side)
                                  ELSE get_position_idx(mode2, side)]]
        ELSE [result |-> IF a1.res = "ok" THEN "ok" ELSE "None", mode |-> mode,
              refreshed |-> FALSE, first |-> a1.last, total |-> a1.last,
              position_idx |-> [k \in 1..a1.last |-> get_position_idx(mode, side)]]

-----------------------------------------------------------------------------
(* TradingBot (src/bot.py)                                                  *)

SymbolList == <<"XRPUSDT", "ETHUSDT">>
Symbols == {SymbolList[i] : i \in 1..Len(SymbolList)}

\* what one step of the bot did to one symbol: the manager and RiskManager
\* after it, the market order it sent (kind: "entry", "add", "close" or ""),
\* the stop price sent by check_exit, the trade record written, and the
\* decision taken
Outcome(mgr, risk, kind, calls, sl_update, trade, res) ==
    [mgr |-> mgr, risk |-> risk, kind |-> kind, calls |-> calls,
     sl_update |-> sl_update, trade |-> trade, res |-> res]

\* sum of entry_price * qty / max(LEVERAGE, 1) over the open positions
\* (bot.py lines 879-882), in units of 1 / PriceDen
RECURSIVE margin_sum(_, _)
margin_sum(mgrs, i) ==
    IF i > Len(SymbolList) THEN 0
    ELSE (IF has_position(mgrs[SymbolList[i]])
          THEN (mgrs[SymbolList[i]].entry_price * mgrs[SymbolList[i]].qty)
                   \div Max(LEVERAGE, 1)
          ELSE 0) + margin_sum(mgrs, i + 1)

current_margin_total(mgrs) == margin_sum(mgrs, 1)

active_positions(mgrs) == Cardinality({s \in Symbols : has_position(mgrs[s])})

\* A pyramiding branch without the limit on the number of adds
pyramid_no_limit(m, r, combined, confidence, close, total_equity, avail, order_ok, sl_update) ==
    LET want_side == IF combined = 1 THEN "Buy" ELSE IF combined = -1 THEN "Sell" ELSE ""
        hold == Outcome(m, r, "", NoCalls, sl_update, NoTrade, "HOLD")
    IN  IF want_side # "" /\ want_side = m.side
           /\ pct_change(m.entry_price, close * PriceDen, m.side) >= PYRAMID_MIN_PROFIT_PCT
        THEN LET q == calc_qty_from_equity(total_equity, confidence, close, QtyStep, MinQty, 0,
                                           PYRAMID_ADD_SIZE_MULT, avail)
             IN  IF q.qty > 0
                 THEN LET a == add_position(m, close, q.qty, MinQty, order_ok)
                      IN  Outcome(a.mgr, r, IF a.calls.order # "" THEN "add" ELSE "",
                                  a.calls, sl_update, NoTrade,
                                  IF a.ok THEN "PYRAMID_ADD" ELSE "PYRAMID_FAILED")
                 ELSE hold
        ELSE hold

\* the pyramiding branch of TradingBot._analyze_symbol (lines 824-847), reached
\* with an open position for which check_exit returned None
pyramid(m, r, combined, confidence, close, total_equity, avail, order_ok, sl_update) ==
    LET want_side == IF combined = 1 THEN "Buy" ELSE IF combined = -1 THEN "Sell" ELSE ""
        hold == Outcome(m, r, "", NoCalls, sl_update, NoTrade, "HOLD")
    IN  IF want_side # "" /\ want_side = m.side /\ m.add_count < PYRAMID_MAX_ADDS
        THEN IF pct_change(m.entry_price, close * PriceDen, m.side) >= PYRAMID_MIN_PROFIT_PCT
             THEN LET q == calc_qty_from_equity(total_equity, confidence, close, QtyStep, MinQty, 0,
                                                PYRAMID_ADD_SIZE_MULT, avail)
                  IN  IF q.qty > 0
                      THEN LET a == add_position(m, close, q.qty, MinQty, order_ok)
                           IN  Outcome(a.mgr, r, IF a.calls.order # "" THEN "add" ELSE "",
                                       a.calls, sl_update, NoTrade,
                                       IF a.ok THEN "PYRAMID_ADD" ELSE "PYRAMID_FAILED")
                      ELSE hold
             ELSE hold
        ELSE hold

\* the entry branch of TradingBot._analyze_symbol (lines 849-914), reached
\* without a position, with a nonzero combined signal and the filters passed
entry(m, r, mgrs, combined, confidence, close, allow_entry_this_tick, total_equity, avail, order_ok, t) ==
    IF ~allow_entry_this_tick
    THEN Outcome(m, r, "", NoCalls, 0, NoTrade, "WAIT_CANDLE_CLOSE")
    ELSE IF confidence < MIN_ENTRY_CONFIDENCE
    THEN Outcome(m, r, "", NoCalls, 0, NoTrade, "SKIP_LOW_CONF")
    ELSE IF active_positions(mgrs) >= MAX_OPEN_POSITIONS
    THEN Outcome(m, r, "", NoCalls, 0, NoTrade, "MAX_OPEN_POSITIONS")
    ELSE
    LET c == can_trade(r, t)
    IN  IF ~c.ok THEN Outcome(m, c.risk, "", NoCalls, 0, NoTrade, "BLOCKED")
        ELSE IF total_equity <= 0 THEN Outcome(m, c.risk, "", NoCalls, 0, NoTrade, "NO_EQUITY")
        ELSE IF ~check_total_exposure(current_margin_total(mgrs), total_equity).ok
        THEN Outcome(m, c.risk, "", NoCalls, 0, NoTrade, "EXPOSURE")
        ELSE
        LET q == calc_qty_from_equity(total_equity, confidence, close, QtyStep, MinQty, 0, MultDen, avail)
        IN  IF q.qty > 0
            THEN LET o == open_position(m, IF combined = 1 THEN "Buy" ELSE "Sell", 0, close,
                                        q.qty, MinQty, order_ok, t)
                 IN  Outcome(o.mgr, c.risk, IF o.calls.order # "" THEN "entry" ELSE "",
                             o.calls, 0, NoTrade,
                             IF o.ok THEN "OPEN" ELSE "OPEN_FAILED")
            ELSE Outcome(m, c.risk, "", NoCalls, 0, NoTrade, "NO_QTY")

\* TradingBot._analyze_symbol for one symbol: votes are the signal engine's
\* buy and sell counts, close the last candle's close, candle_ts its timestamp
analyze_symbol(m, r, mgrs, is_paused, prev_ts, candle_ts, buy_count, sell_count, close, low_volume, total_equity, avail, order_ok, close_ok, t) ==
    LET sig == generate_signals(buy_count, sell_count)
        combined == sig.combined_signal
        allow_entry_this_tick == ~TRADE_ON_CANDLE_CLOSE_ONLY \/ candle_ts # prev_ts
        filter_result == check_entry_filters(r, low_volume, FALSE, t)
    IN  IF is_paused
        THEN [out |-> Outcome(m, r, "", NoCalls, 0, NoTrade, "PAUSED"), ts |-> candle_ts]
        ELSE IF has_position(m)
        THEN \* check_exit runs once for the signal log (line 780) and once more
             \* for the decision (line 817)
             LET x1 == check_exit(m, close, combined, t)
                 x2 == check_exit(x1.mgr, close, combined, t)
                 sl_update == IF x2.new_sl # 0 THEN x2.new_sl ELSE x1.new_sl
             IN  IF x2.res # ""
                 THEN LET c == close_position(x2.mgr, r, close, x2.res, close_ok, t)
                      IN  [out |-> Outcome(c.mgr, c.risk, "close", c.calls, sl_update,
                                           c.trade, x2.res),
                           ts |-> candle_ts]
                 ELSE [out |-> pyramid(x2.mgr, r, combined, sig.confidence, close,
                                       total_equity, avail, order_ok, sl_update),
                       ts |-> prev_ts]
        ELSE IF combined # 0 /\ filter_result.passed
        THEN \* can_trade runs once for the signal log (line 784)
             [out |-> entry(m, can_trade(r, t).risk, mgrs, combined, sig.confidence, close,
                            allow_entry_this_tick, total_equity, avail, order_ok, t),
              ts |-> candle_ts]
        ELSE [out |-> Outcome(m, r, "", NoCalls, 0, NoTrade, "HOLD"), ts |-> prev_ts]

\* the main loop's monitoring step for one symbol (lines 123-128) with
\* TradingBot._monitor_position: pos is what the exchange reports, last_price
\* the ticker's price
monitor_position(m, r, pos, last_price, close_ok, t) ==
    LET sy == sync_with_exchange(m, r, pos, last_price, t)
    IN  IF ~has_position(m) \/ ~has_position(sy.mgr) \/ last_price <= 0
        THEN Outcome(sy.mgr, sy.risk, "", NoCalls, 0, sy.trade, sy.what)
        ELSE
        LET x == check_exit(sy.mgr, last_price, 0, t)
        IN  IF x.res # ""
            THEN LET c == close_position(x.mgr, sy.risk, last_price, x.res, close_ok, t)
                 IN  Outcome(c.mgr, c.risk, "close", c.calls, x.new_sl, c.trade, x.res)
            ELSE Outcome(x.mgr, sy.risk, "", NoCalls, x.new_sl, NoTrade, "")

\* TradingBot._analyze_symbol when the exchange query fail_at ("get_klines",
\* line 721, or "get_balance", lines 829 and 874) raises after its retries:
\* whether the tick gets to that query, and the manager, the RiskManager and
\* the stop price pushed to the exchange when the exception leaves the tick
analyze_symbol_failing(m, r, mgrs, prev_ts, candle_ts, buy_count, sell_count, close, low_volume, t, fail_at) ==
    LET sig == generate_signals(buy_count, sell_count)
        combined == sig.combined_signal
        allow_entry_this_tick == ~TRADE_ON_CANDLE_CLOSE_ONLY \/ candle_ts # prev_ts
        filter_result == check_entry_filters(r, low_volume, FALSE, t)
        completes == [raised |-> FALSE, mgr |-> m, risk |-> r, sl_update |-> 0]
    IN  IF fail_at = "get_klines"
        THEN [raised |-> TRUE, mgr |-> m, risk |-> r, sl_update |-> 0]
        ELSE IF has_position(m)
        THEN LET want_side == IF combined = 1 THEN "Buy"
                              ELSE IF combined = -1 THEN "Sell" ELSE ""
                 \* x1, x2: the results of the two check_exit calls
                 pyramiding(x1, x2) ==
                     IF /\ x2.res = ""
                        /\ want_side # "" /\ want_side = x2.mgr.side
                        /\ x2.mgr.add_count < PYRAMID_MAX_ADDS
                        /\ pct_change(x2.mgr.entry_price, close * PriceDen, x2.mgr.side)
                              >= PYRAMID_MIN_PROFIT_PCT
                     THEN [raised |-> TRUE, mgr |-> x2.mgr, risk |-> r,
                           sl_update |-> IF x2.new_sl # 0 THEN x2.new_sl ELSE x1.new_sl]
                     ELSE completes
             IN  CHOOSE a \in UNION {{pyramiding(x1, x2) :
                                         x2 \in {check_exit(x1.mgr, close, combined, t)}} :
                                      x1 \in {check_exit(m, close, combined, t)}} : TRUE
        ELSE IF combined # 0 /\ filter_result.passed
        THEN LET c == can_trade(can_trade(r, t).risk, t)
             IN  IF /\ allow_entry_this_tick
                    /\ sig.confidence >= MIN_ENTRY_CONFIDENCE
                    /\ active_positions(mgrs) < MAX_OPEN_POSITIONS
                    /\ c.ok
                 THEN [raised |-> TRUE, mgr |-> m, risk |-> c.risk, sl_update |-> 0]
                 ELSE completes
        ELSE completes

\* the monitoring step for one symbol when the exchange query fail_at
\* ("get_position", position.py line 343, or "get_ticker", position.py line
\* 347 and bot.py line 923) raises after its retries
monitor_position_failing(m, r, pos, t, fail_at) ==
    IF fail_at = "get_position" THEN [raised |-> TRUE, mgr |-> m, risk |-> r]
    ELSE IF ~has_position(m) THEN [raised |-> FALSE, mgr |-> m, risk |-> r]
    ELSE IF pos = NoPos THEN [raised |-> TRUE, mgr |-> m, risk |-> r]
    ELSE LET sy == sync_with_exchange(m, r, pos, 0, t)
         IN  [raised |-> TRUE, mgr |-> sy.mgr, risk |-> sy.risk]

\* TradingBot._cmd_long (side "Buy") and TradingBot._cmd_short (side "Sell")
cmd_entry(m, r, side, total_equity, avail, price, order_ok, t) ==
    IF has_position(m) THEN Outcome(m, r, "", NoCalls, 0, NoTrade, "HAS_POSITION")
    ELSE IF total_equity <= 0 THEN Outcome(m, r, "", NoCalls, 0, NoTrade, "NO_EQUITY")
    ELSE IF price <= 0 THEN Outcome(m, r, "", NoCalls, 0, NoTrade, "NO_PRICE")
    ELSE
    LET q == calc_qty_from_equity(total_equity, 2, price, QtyStep, MinQty, 0, MultDen, avail)
    IN  IF q.qty <= 0 THEN Outcome(m, r, "", NoCalls, 0, NoTrade, "NO_QTY")
        ELSE LET o == open_position(m, side, 0, price, q.qty, MinQty, order_ok, t)
             IN  Outcome(o.mgr, r, IF o.calls.order # "" THEN "entry" ELSE "", o.calls, 0,
                         NoTrade, IF o.ok THEN "OPEN" ELSE "OPEN_FAILED")

\* TradingBot._cmd_close for one symbol
cmd_close(m, r, price, close_ok, t) ==
    IF ~has_position(m) THEN Outcome(m, r, "", NoCalls, 0, NoTrade, "NO_POSITION")
    ELSE LET c == close_position(m, r, price, "MANUAL_CLOSE", close_ok, t)
         IN  Outcome(c.mgr, c.risk, "close", c.calls, 0, c.trade, "MANUAL_CLOSE")

-----------------------------------------------------------------------------
(* The bot as a state machine.  The main loop of TradingBot.run is a single *)
(* thread that handles the polled commands, runs the signal cycle over the  *)
(* symbols when one is due, monitors every symbol and sleeps.  A handler    *)
(* whose exchange query fails is cut short (bot.py lines 707-710 and        *)
(* 933-934, and the loop's own handler at lines 135-138): SpecFailure has    *)
(* these ticks, Spec leaves them out.  The handlers of the symbols can       *)
(* follow each other in any order; each is one action.                       *)
(* The exchange acts on its own between them.                               *)

BotStartHour == 22
Equities == {30000}
AvailableBalances == {20000}
\* what a signal cycle can find for a symbol: the voters' buy and sell counts,
\* whether the volume is low, the equity the exchange reports and whether it
\* accepts an order.  The second symbol never shows a clear signal and gets no
\* manual entry: it is traded only outside the bot.
Market(buy_count, sell_count, low_volume, total_equity, order_ok) ==
    [buy_count |-> buy_count, sell_count |-> sell_count, low_volume |-> low_volume,
     total_equity |-> total_equity, order_ok |-> order_ok]
Markets(s) ==
    IF s = SymbolList[1]
    THEN {Market(2, 2, FALSE, 30000, TRUE), Market(2, 0, FALSE, 30000, TRUE),
          Market(3, 0, FALSE, 30000, TRUE), Market(3, 0, FALSE, 30000, FALSE),
          Market(0, 3, FALSE, 30000, TRUE), Market(3, 0, TRUE, 30000, TRUE),
          Market(3, 0, FALSE, 0, TRUE)}
    ELSE {Market(2, 2, FALSE, 30000, TRUE), Market(2, 2, FALSE, 30000, FALSE)}
CommandTargets == {SymbolList[1]}
LastPrices(s) == IF s = SymbolList[1] THEN {1000, 1035} ELSE {1000}
ExternalPositions(s) ==
    IF s = SymbolList[1] THEN {}
    ELSE {[side |-> "Buy", size |-> 9, entry_price |-> 1040 * PriceDen]}

\* the bot before run(): nothing open, nothing logged
BotIdle ==
    /\ pos_managers = [s \in Symbols |-> MgrInit]
    /\ last_processed_candle_ts = [s \in Symbols |-> NoTime]
    /\ exchange = [s \in Symbols |-> NoPos]
    /\ server_stops = [s \in Symbols |-> NoStops]
    /\ trades_logged = 0

\* TradingBot.__init__; run() starts by syncing every symbol with the exchange,
\* which is what the monitoring step does for a manager without a position
Init ==
    /\ now = BotStartHour
    /\ risk_mgr = RiskInit(now)
    /\ BotIdle
    /\ ev = NoEv
    /\ arg = NoArg
    /\ ret = NoRet

\* a reduce-only close order is accepted only against a position on that side
close_accepted(s, order_ok) ==
    order_ok /\ exchange[s].size > 0 /\ exchange[s].side = pos_managers[s].side

\* the decisions without an order or a trade record that the last operation
\* keeps on record
Recorded == {"HAS_POSITION", "BLOCKED", "EXPOSURE", "adopt"}

\* the effect of one step of the bot on symbol s; total_equity is the equity
\* the step read from the exchange (0 when it read none) and signal the
\* combined signal it worked with (0 when it had none)
Apply(s, op, out, price, total_equity, signal) ==
    /\ pos_managers' = [pos_managers EXCEPT ![s] = out.mgr]
    /\ risk_mgr' = out.risk
    /\ exchange' = [exchange EXCEPT ![s] = exchange_after(@, out.calls, price)]
    /\ server_stops' = [server_stops EXCEPT
                          ![s] = stops_after(@, out.mgr, out.sl_update, out.calls)]
    /\ trades_logged' = trades_logged + (IF out.trade # NoTrade THEN 1 ELSE 0)
    /\ trades_logged' <= MaxTrades
    /\ ev' = IF out.trade # NoTrade \/ out.kind # "" \/ out.res \in Recorded
             THEN [NoEv EXCEPT !.op = op, !.sym = s, !.order = out.kind,
                               !.filled = out.calls.filled, !.res = out.res,
                               !.equity = IF out.kind \in {"entry", "add"}
                                          THEN total_equity ELSE 0,
                               !.price = IF out.kind = "add" THEN price ELSE 0,
                               !.signal = IF out.kind = "add" THEN signal ELSE 0]
             ELSE [NoEv EXCEPT !.op = "idle"]

\* A signal cycle that never records the candle it has processed
AnalyzeSymbol_forgets_candle(s, mkt, close, avail) ==
    /\ LET a == analyze_symbol(pos_managers[s], risk_mgr, pos_managers, FALSE,
                               last_processed_candle_ts[s], now, mkt.buy_count,
                               mkt.sell_count, close, mkt.low_volume, mkt.total_equity,
                               avail, mkt.order_ok,
                               close_accepted(s, mkt.order_ok), now)
       IN  Apply(s, "analyze", a.out, close, mkt.total_equity,
                 generate_signals(mkt.buy_count, mkt.sell_count).combined_signal)
    /\ UNCHANGED <<now, last_processed_candle_ts, arg, ret>>

\* one symbol's turn in TradingBot._signal_cycle
AnalyzeSymbol(s, mkt, close, avail) ==
    /\ LET a == analyze_symbol(pos_managers[s], risk_mgr, pos_managers, FALSE,
                               last_processed_candle_ts[s], now, mkt.buy_count,
                               mkt.sell_count, close, mkt.low_volume, mkt.total_equity,
                               avail, mkt.order_ok,
                               close_accepted(s, mkt.order_ok), now)
       IN  /\ Apply(s, "analyze", a.out, close, mkt.total_equity,
                     generate_signals(mkt.buy_count, mkt.sell_count).combined_signal)
           /\ last_processed_candle_ts' = [last_processed_candle_ts EXCEPT ![s] = a.ts]
    /\ UNCHANGED <<now, arg, ret>>

\* one symbol's turn in the monitoring loop
MonitorTick(s, last_price, order_ok) ==
    /\ Apply(s, "monitor",
             monitor_position(pos_managers[s], risk_mgr, exchange[s], last_price,
                              close_accepted(s, order_ok), now),
             last_price, 0, 0)
    /\ UNCHANGED <<now, last_processed_candle_ts, arg, ret>>

\* time.sleep(10) at the end of an iteration, when it takes the clock into the
\* next hour
Sleep ==
    /\ now + 1 <= MaxClock
    /\ now' = now + 1
    /\ ev' = [NoEv EXCEPT !.op = "sleep"]
    /\ UNCHANGED <<risk_mgr, botVars, arg, ret>>

CmdEntry(s, side, price, total_equity, avail, order_ok) ==
    /\ Apply(s, IF side = "Buy" THEN "cmd_long" ELSE "cmd_short",
             cmd_entry(pos_managers[s], risk_mgr, side, total_equity, avail, price,
                       order_ok, now),
             price, total_equity, 0)
    /\ UNCHANGED <<now, last_processed_candle_ts, arg, ret>>

\* TradingBot._cmd_long
CmdLong(s, price, total_equity, avail, order_ok) ==
    CmdEntry(s, "Buy", price, total_equity, avail, order_ok)

\* TradingBot._cmd_short
CmdShort(s, price, total_equity, avail, order_ok) ==
    CmdEntry(s, "Sell", price, total_equity, avail, order_ok)

\* TradingBot._cmd_close with a target symbol
CmdClose(s, price, order_ok) ==
    /\ Apply(s, "cmd_close",
             cmd_close(pos_managers[s], risk_mgr, price, close_accepted(s, order_ok), now),
             price, 0, 0)
    /\ UNCHANGED <<now, last_processed_candle_ts, arg, ret>>

\* the exchange closes a position on its own (server-side stop, liquidation,
\* a trade made outside the bot)
ServerClose(s) ==
    /\ exchange[s].size > 0
    /\ exchange' = [exchange EXCEPT ![s] = NoPos]
    /\ ev' = [NoEv EXCEPT !.op = "server_close", !.sym = s]
    /\ UNCHANGED <<now, risk_mgr, pos_managers, last_processed_candle_ts,
                   server_stops, trades_logged, arg, ret>>

\* a position is opened on the exchange outside the bot
ExternalOpen(s, pos) ==
    /\ exchange[s].size = 0
    /\ exchange' = [exchange EXCEPT ![s] = pos]
    /\ ev' = [NoEv EXCEPT !.op = "external_open", !.sym = s]
    /\ UNCHANGED <<now, risk_mgr, pos_managers, last_processed_candle_ts,
                   server_stops, trades_logged, arg, ret>>

Next ==
    \/ \E s \in Symbols : \E mkt \in Markets(s), close \in LastPrices(s),
          avail \in AvailableBalances :
          AnalyzeSymbol(s, mkt, close, avail)
    \/ \E s \in Symbols : \E last_price \in LastPrices(s), order_ok \in BOOLEAN :
          MonitorTick(s, last_price, order_ok)
    \/ Sleep
    \/ \E s \in CommandTargets : \E price \in LastPrices(s), total_equity \in Equities,
          avail \in AvailableBalances, order_ok \in BOOLEAN :
          CmdLong(s, price, total_equity, avail, order_ok)
    \/ \E s \in CommandTargets : \E price \in LastPrices(s), total_equity \in Equities,
          avail \in AvailableBalances, order_ok \in BOOLEAN :
          CmdShort(s, price, total_equity, avail, order_ok)
    \/ \E s \in Symbols : \E price \in LastPrices(s), order_ok \in BOOLEAN :
          CmdClose(s, price, order_ok)
    \/ \E s \in Symbols \ CommandTargets : ServerClose(s)
    \/ \E s \in Symbols : \E pos \in ExternalPositions(s) : ExternalOpen(s, pos)

Spec == Init /\ [][Next]_vars

-----------------------------------------------------------------------------
(* Unit-level specification of the PositionManager: one manager whose       *)
(* methods are called the way the bot calls them, at any price and with any *)
(* combined signal, while the clock advances.                               *)

PosSymbol == SymbolList[1]
PosSides == {"Buy", "Sell"}
PosEntryPrices == {1000}
PosPrices == {960, 962, 965, 980, 1000, 1016, 1035, 1037, 1040}
PosAddPrices == {965, 1037}
PosSignals == {-1, 0, 1}
PosMinQty == 2
PosEntryQtys == {1, 2}
PosMargins == {1500, 2500}
PosAddQtys == {0, 1, 2}
PosTimeStep == 48

\* the arguments of open_position: a quantity override, or a margin from which
\* the quantity is computed (qty_override = 0 stands for None)
PosOpenArgs ==
    {[margin_usdt |-> 0, qty_override |-> q] : q \in PosEntryQtys}
        \cup {[margin_usdt |-> mg, qty_override |-> 0] : mg \in PosMargins}

PosInit ==
    /\ now = 0
    /\ risk_mgr = RiskInit(now)
    /\ BotIdle
    /\ ev = NoEv
    /\ arg = NoArg
    /\ ret = NoRet

\* what set_trading_stop / update_stop_loss left on the exchange: nothing when
\* the call failed (they catch the error and return False, exchange.py lines
\* 351-353 and 376-378)
pushed_stops(st, mgr_after, sl_update, calls, stop_ok) ==
    IF stop_ok THEN stops_after(st, mgr_after, sl_update, calls)
    ELSE stops_after(st, mgr_after, 0, NoCalls)

\* the effect of one call sequence on the manager, the RiskManager, the
\* exchange and the trade log; inp is what the call was given
PosApply(op, out, inp) ==
    /\ pos_managers' = [pos_managers EXCEPT ![PosSymbol] = out.mgr]
    /\ risk_mgr' = out.risk
    /\ exchange' = [exchange EXCEPT ![PosSymbol] = exchange_after(@, out.calls, inp.price)]
    /\ server_stops' = [server_stops EXCEPT
                          ![PosSymbol] = pushed_stops(@, out.mgr, out.sl_update, out.calls,
                                                      inp.stop_ok)]
    /\ trades_logged' = trades_logged + (IF out.trade # NoTrade THEN 1 ELSE 0)
    /\ trades_logged' <= MaxTrades
    /\ ev' = [NoEv EXCEPT !.op = op, !.sym = PosSymbol, !.order = out.kind,
                          !.filled = out.calls.filled, !.res = out.res,
                          !.reason = out.trade.exit_reason,
                          !.price = inp.price, !.signal = inp.signal, !.qty = inp.qty,
                          !.margin = inp.margin, !.side = inp.side,
                          !.stop_ok = inp.stop_ok
                                         \/ (out.sl_update = 0 /\ out.calls.set_sl = 0)]
    /\ UNCHANGED <<now, last_processed_candle_ts, arg, ret>>

\* the inputs of one call, as PosApply records them
PosIn(price, signal, side, qty, margin, stop_ok) ==
    [price |-> price, signal |-> signal, side |-> side, qty |-> qty, margin |-> margin,
     stop_ok |-> stop_ok]

\* An open_position step that gives the position up when the protective
\* stops could not be set
PosOpen_stop_required(side, price, a, order_ok, stop_ok) ==
    /\ ~has_position(pos_managers[PosSymbol])
    /\ trades_logged < MaxTrades
    /\ LET o == open_position(pos_managers[PosSymbol], side, a.margin_usdt, price,
                              a.qty_override, PosMinQty, order_ok, now)
       IN  PosApply("open_position",
                    Outcome(IF stop_ok THEN o.mgr ELSE pos_managers[PosSymbol], risk_mgr,
                            IF o.calls.order # "" THEN "entry" ELSE "",
                            o.calls, 0, NoTrade,
                            IF o.ok /\ stop_ok THEN "OPEN" ELSE "OPEN_FAILED"),
                    PosIn(price, 0, side, a.qty_override, a.margin_usdt, stop_ok))

\* open_position, called for a manager without a position (bot.py lines 375
\* and 816), while the trade log has room for the position's record
PosOpen(side, price, a, order_ok, stop_ok) ==
    /\ ~has_position(pos_managers[PosSymbol])
    /\ trades_logged < MaxTrades
    /\ LET o == open_position(pos_managers[PosSymbol], side, a.margin_usdt, price,
                              a.qty_override, PosMinQty, order_ok, now)
       IN  PosApply("open_position",
                    Outcome(o.mgr, risk_mgr, IF o.calls.order # "" THEN "entry" ELSE "",
                            o.calls, 0, NoTrade, IF o.ok THEN "OPEN" ELSE "OPEN_FAILED"),
                    PosIn(price, 0, side, a.qty_override, a.margin_usdt, stop_ok))

\* check_exit, followed by close_position with the reason it returned (bot.py
\* lines 817-819 and 928-931)
PosCheckExit(price, signal, order_ok, stop_ok) ==
    LET x == check_exit(pos_managers[PosSymbol], price, signal, now)
    IN  IF x.res # ""
        THEN LET c == close_position(x.mgr, risk_mgr, price, x.res,
                                     close_accepted(PosSymbol, order_ok), now)
             IN  PosApply("check_exit",
                          Outcome(c.mgr, c.risk, "close", c.calls, x.new_sl, c.trade, x.res),
                          PosIn(price, signal, "", 0, 0, stop_ok))
        ELSE PosApply("check_exit",
                      Outcome(x.mgr, risk_mgr, "", NoCalls, x.new_sl, NoTrade, ""),
                      PosIn(price, signal, "", 0, 0, stop_ok))

\* add_position, called under the conditions of the pyramiding branch (bot.py
\* lines 824-842) when there is a position: fewer than PYRAMID_MAX_ADDS adds
\* so far and the position at least PYRAMID_MIN_PROFIT_PCT in profit
PosAdd(price, qty_add, order_ok, stop_ok) ==
    /\ has_position(pos_managers[PosSymbol])
        => /\ pos_managers[PosSymbol].add_count < PYRAMID_MAX_ADDS
           /\ pct_change(pos_managers[PosSymbol].entry_price, price * PriceDen,
                         pos_managers[PosSymbol].side) >= PYRAMID_MIN_PROFIT_PCT
    /\ LET a == add_position(pos_managers[PosSymbol], price, qty_add, PosMinQty, order_ok)
       IN  PosApply("add_position",
                    Outcome(a.mgr, risk_mgr, IF a.calls.order # "" THEN "add" ELSE "",
                            a.calls, 0, NoTrade,
                            IF a.ok THEN "PYRAMID_ADD" ELSE "PYRAMID_FAILED"),
                    PosIn(price, 0, "", qty_add, 0, stop_ok))

PosAdvance ==
    /\ now + PosTimeStep <= MaxPosClock
    /\ now' = now + PosTimeStep
    /\ ev' = [NoEv EXCEPT !.op = "advance"]
    /\ UNCHANGED <<risk_mgr, botVars, arg, ret>>

PosNext ==
    \/ \E side \in PosSides, price \in PosEntryPrices, a \in PosOpenArgs,
          order_ok \in BOOLEAN, stop_ok \in BOOLEAN :
          PosOpen(side, price, a, order_ok, stop_ok)
    \/ \E price \in PosPrices, signal \in PosSignals, order_ok \in BOOLEAN,
          stop_ok \in BOOLEAN :
          PosCheckExit(price, signal, order_ok, stop_ok)
    \/ \E price \in PosAddPrices, qty_add \in PosAddQtys, order_ok \in BOOLEAN,
          stop_ok \in BOOLEAN :
          PosAdd(price, qty_add, order_ok, stop_ok)
    \/ PosAdvance

SpecPos == PosInit /\ [][PosNext]_vars

-----------------------------------------------------------------------------
(* Unit-level specification of reconciliation: two managers sharing one     *)
(* RiskManager, the exchange closing and opening positions on its own, and  *)
(* sync_with_exchange and close_position called in between.  The first      *)
(* symbol is traded by the bot, the second one outside it.                  *)

MaxSyncTrades == 2
SyncEntryPrice == 1000
SyncEntryQty == 2
SyncPrices(s) ==
    IF s = SymbolList[1] THEN {990, 991, 1010, 1019, 1020} ELSE {1000}
SyncClosePrices == {980}
SyncCloseReasons == {"MANUAL_CLOSE", "SL_HIT"}
SyncExternalPositions(s) ==
    IF s = SymbolList[1] THEN {}
    ELSE {[side |-> "Buy", size |-> 9, entry_price |-> 1040 * PriceDen],
          [side |-> "Sell", size |-> 3, entry_price |-> 960 * PriceDen]}

\* the effect of one manager call on symbol s; of a call that sent no order,
\* wrote no trade record and adopted nothing only the name is kept
SyncApply(s, op, out, price) ==
    /\ pos_managers' = [pos_managers EXCEPT ![s] = out.mgr]
    /\ risk_mgr' = out.risk
    /\ exchange' = [exchange EXCEPT ![s] = exchange_after(@, out.calls, price)]
    /\ server_stops' = [server_stops EXCEPT
                          ![s] = stops_after(@, out.mgr, out.sl_update, out.calls)]
    /\ trades_logged' = trades_logged + (IF out.trade # NoTrade THEN 1 ELSE 0)
    /\ trades_logged' <= MaxSyncTrades
    /\ ev' = IF out.trade # NoTrade \/ out.kind # "" \/ out.res \in Recorded
             THEN [NoEv EXCEPT !.op = op, !.sym = s, !.order = out.kind,
                               !.filled = out.calls.filled, !.res = out.res,
                               !.reason = out.trade.exit_reason, !.price = price]
             ELSE [NoEv EXCEPT !.op = op, !.sym = s]
    /\ UNCHANGED <<now, last_processed_candle_ts, arg, ret>>

\* open_position for a manager without a position
SyncOpen(s, side, order_ok) ==
    /\ ~has_position(pos_managers[s])
    /\ trades_logged < MaxSyncTrades
    /\ LET o == open_position(pos_managers[s], side, 0, SyncEntryPrice, SyncEntryQty,
                              MinQty, order_ok, now)
       IN  SyncApply(s, "open_position",
                     Outcome(o.mgr, risk_mgr, IF o.calls.order # "" THEN "entry" ELSE "",
                             o.calls, 0, NoTrade, IF o.ok THEN "OPEN" ELSE "OPEN_FAILED"),
                     SyncEntryPrice)

\* close_position with the reason its caller decided on (bot.py lines 339, 819
\* and 931)
SyncClose(s, price, exit_reason, order_ok) ==
    LET c == close_position(pos_managers[s], risk_mgr, price, exit_reason,
                            close_accepted(s, order_ok), now)
    IN  SyncApply(s, "close_position",
                  Outcome(c.mgr, c.risk, IF c.calls.order # "" THEN "close" ELSE "",
                          c.calls, 0, c.trade,
                          IF c.trade # NoTrade THEN "CLOSED" ELSE "CLOSE_FAILED"),
                  price)

\* sync_with_exchange against what the exchange reports, last_price being the
\* ticker's price (bot.py lines 94, 128 and 919)
SyncWithExchange(s, last_price) ==
    LET sy == sync_with_exchange(pos_managers[s], risk_mgr, exchange[s], last_price, now)
    IN  SyncApply(s, "sync_with_exchange",
                  Outcome(sy.mgr, sy.risk, "", NoCalls, 0, sy.trade, sy.what),
                  last_price)

SyncNext ==
    \/ \E s \in CommandTargets, side \in PosSides, order_ok \in BOOLEAN :
          SyncOpen(s, side, order_ok)
    \/ \E s \in Symbols : \E price \in SyncClosePrices, exit_reason \in SyncCloseReasons,
          order_ok \in BOOLEAN :
          SyncClose(s, price, exit_reason, order_ok)
    \/ \E s \in Symbols : \E last_price \in SyncPrices(s) : SyncWithExchange(s, last_price)
    \/ \E s \in Symbols : ServerClose(s)
    \/ \E s \in Symbols : \E pos \in SyncExternalPositions(s) : ExternalOpen(s, pos)
    \/ PosAdvance

SpecSync == PosInit /\ [][SyncNext]_vars

-----------------------------------------------------------------------------
(* Unit-level specification of the RiskManager: its public methods called   *)
(* in any order while the clock advances.                                   *)

StartHours == {21}
TimeSteps == {1, 2}
PnlInputs == {-150, -50, 200}

RiskSpecInit ==
    /\ now \in StartHours
    /\ risk_mgr = RiskInit(now)
    /\ BotIdle
    /\ ev = NoEv
    /\ arg = NoArg
    /\ ret = NoRet

RiskRecordTrade(pnl_pct, exit_reason) ==
    /\ check_daily_reset(risk_mgr, now).daily_trade_count < MaxRecorded
    /\ risk_mgr' = record_trade(risk_mgr, now, pnl_pct, exit_reason)
    /\ ev' = [NoEv EXCEPT !.op = "record_trade", !.pnl = pnl_pct, !.reason = exit_reason,
                          !.reset = did_reset(risk_mgr, now)]
    /\ UNCHANGED <<now, botVars, arg, ret>>

RiskCanTrade ==
    LET c == can_trade(risk_mgr, now)
    IN  /\ risk_mgr' = c.risk
        /\ ev' = [NoEv EXCEPT !.op = "can_trade", !.ok = c.ok, !.res = c.reason,
                              !.log = c.log, !.reset = did_reset(risk_mgr, now)]
        /\ UNCHANGED <<now, botVars, arg, ret>>

Advance(d) ==
    /\ now + d <= MaxNow
    /\ now' = now + d
    /\ ev' = [NoEv EXCEPT !.op = "advance"]
    /\ UNCHANGED <<risk_mgr, botVars, arg, ret>>

RiskNext ==
    \/ \E p \in PnlInputs, x \in ExitReasons : RiskRecordTrade(p, x)
    \/ RiskCanTrade
    \/ \E d \in TimeSteps : Advance(d)

SpecRisk == RiskSpecInit /\ [][RiskNext]_vars

-----------------------------------------------------------------------------
(* Specification of the sizing function: arguments drawn at the start, then *)
(* the function applied to them.                                            *)

SizingEquities == {0, 9000, 30000}
SizingConfidences == {2, 3, 4}
SizingPrices == {0, 1000, 1037}
SizingQtySteps == {1, 5}
SizingMinQtys == {1, 2}
SizingLeverages == {0, 1, 3, 5}
SizingMultipliers == {-10, 5, 10, 20}
SizingBalances == {NoBalance, 0, 10, 1500, 20000}

SizingArgs ==
    [fn : {"calc_qty_from_equity", "calc_qty_from_balance"}, equity : SizingEquities,
     confidence : SizingConfidences, mark_price : SizingPrices,
     qty_step : SizingQtySteps, min_qty : SizingMinQtys, leverage : SizingLeverages,
     size_multiplier : SizingMultipliers, available_balance : SizingBalances]

SizingInit ==
    /\ now \in StartHours
    /\ risk_mgr = RiskInit(now)
    /\ BotIdle
    /\ ev = NoEv
    /\ arg \in SizingArgs
    /\ ret = NoRet

CalcQtyFromEquity ==
    /\ arg.fn = "calc_qty_from_equity"
    /\ ret = NoRet
    /\ ret' = [fn |-> "calc_qty_from_equity",
               out |-> calc_qty_from_equity(arg.equity, arg.confidence, arg.mark_price,
                                            arg.qty_step, arg.min_qty, arg.leverage,
                                            arg.size_multiplier, arg.available_balance)]
    /\ UNCHANGED <<now, risk_mgr, botVars, ev, arg>>

\* calc_qty_from_balance takes a number for the balance: for it the balance
\* NoBalance is the amount -1
CalcQtyFromBalance ==
    /\ arg.fn = "calc_qty_from_balance"
    /\ ret = NoRet
    /\ ret' = [fn |-> "calc_qty_from_balance",
               out |-> calc_qty_from_balance(arg.available_balance, arg.mark_price,
                                             arg.qty_step, arg.min_qty, arg.leverage)]
    /\ UNCHANGED <<now, risk_mgr, botVars, ev, arg>>

SizingNext ==
    \/ CalcQtyFromEquity
    \/ CalcQtyFromBalance

SpecSizing == SizingInit /\ [][SizingNext]_vars

\* the leverage calc_qty_from_equity works with
ArgLeverage == IF arg.leverage # 0 THEN arg.leverage ELSE LEVERAGE

\* C10: for equity > 0 and mark price > 0 the margin implied by the returned
\* quantity, quantity x markPrice / leverage, is at most
\* equity x MAX_POSITION_SIZE_PCT / 100 and, when an available balance > 0 is
\* supplied, at most 95 % of that balance.
C10_MarginCapped ==
    ret.fn = "calc_qty_from_equity" /\ arg.equity > 0 /\ arg.mark_price > 0
    => /\ ret.out.qty * arg.mark_price * PctDen
              <= arg.equity * MAX_POSITION_SIZE_PCT * ArgLeverage
       /\ (arg.available_balance > 0
           => ret.out.qty * arg.mark_price * PctDen
                  <= arg.available_balance * BalanceSafetyPct * ArgLeverage)

\* C10 witness: a multiplier of 2.0 at high confidence asks for 16 % of equity,
\* and sizing returned a positive quantity with reason ok.
C10_Witness ==
    /\ ret.fn = "calc_qty_from_equity"
    /\ arg.equity > 0 /\ arg.mark_price > 0 /\ arg.available_balance > 0
    /\ arg.size_multiplier = 20 /\ arg.confidence >= HIGH_CONFIDENCE_THRESHOLD
    /\ ret.out.qty > 0 /\ ret.out.reason = "ok"

\* the raw quantity of the last sizing call, SizingRawNum / SizingRawDen lots
SizingRawNum ==
    IF ret.fn = "calc_qty_from_equity" THEN ret.out.margin * ArgLeverage
    ELSE ret.out.notional * ArgLeverage
SizingRawDen ==
    IF ret.fn = "calc_qty_from_equity" THEN arg.mark_price * MarginDen
    ELSE arg.mark_price * PctDen
SizingRejected == ret.out.reason \in {"invalid_equity_or_price", "insufficient_balance"}

\* C11: sizing returns either quantity 0 with a reason other than ok, or, with
\* reason ok, the raw quantity rounded down to a whole multiple of the
\* quantity step, which is then >= the minimum quantity; when the rounded-down
\* quantity is below the minimum the result is 0 with reason below_min_qty.
C11_RoundedDownOrZero ==
    ret.fn \in {"calc_qty_from_equity", "calc_qty_from_balance"}
    => /\ \/ ret.out.qty = 0 /\ ret.out.reason # "ok"
          \/ /\ ret.out.reason = "ok"
             /\ ret.out.qty % arg.qty_step = 0
             /\ ret.out.qty * SizingRawDen <= SizingRawNum
             /\ SizingRawNum < (ret.out.qty + arg.qty_step) * SizingRawDen
             /\ ret.out.qty >= arg.min_qty
       /\ ((~SizingRejected
             /\ (\E k \in 0..(arg.min_qty - 1) :
                   /\ k % arg.qty_step = 0
                   /\ k * SizingRawDen <= SizingRawNum
                   /\ SizingRawNum < (k + arg.qty_step) * SizingRawDen))
           => ret.out.qty = 0 /\ ret.out.reason = "below_min_qty")

\* C11 witness: with a step of 5 lots and a minimum of 2 the raw quantity was
\* between 1 and 5 lots, so it rounded down to 0 and sizing returned 0 with
\* reason below_min_qty.
C11_Witness ==
    /\ ret.fn \in {"calc_qty_from_equity", "calc_qty_from_balance"}
    /\ arg.qty_step = 5 /\ arg.min_qty = 2
    /\ ~SizingRejected
    /\ SizingRawNum >= SizingRawDen
    /\ ret.out.qty = 0 /\ ret.out.reason = "below_min_qty"

-----------------------------------------------------------------------------
(* Unit-level specification of the RiskManager with its queries: the entry  *)
(* filters, the spread filter, sizing, the exposure check and get_status     *)
(* called between record_trade and can_trade calls.                          *)

\* A check_entry_filters that drops the stop-loss times it finds outside the
\* lookback window
GuardCheckEntryFilters_pruning(rows, vol_ratio, has_pos) ==
    /\ risk_mgr' = [risk_mgr EXCEPT !.last_sl_times =
                        SelectSeq(@, LAMBDA x : x > now - RECENT_SL_LOOKBACK)]
    /\ ev' = [NoEv EXCEPT !.op = "check_entry_filters", !.rows = rows,
                          !.vol_ratio = vol_ratio, !.has_position = has_pos,
                          !.filters = check_entry_filters_df(risk_mgr, rows, vol_ratio,
                                                             has_pos, now)]
    /\ UNCHANGED <<now, botVars, arg, ret>>

GuardCheckEntryFilters(rows, vol_ratio, has_pos) ==
    /\ ev' = [NoEv EXCEPT !.op = "check_entry_filters", !.rows = rows,
                          !.vol_ratio = vol_ratio, !.has_position = has_pos,
                          !.filters = check_entry_filters_df(risk_mgr, rows, vol_ratio,
                                                             has_pos, now)]
    /\ UNCHANGED <<now, risk_mgr, botVars, arg, ret>>

GuardCheckSpreadFilter(spread, avg_spread) ==
    /\ ev' = [NoEv EXCEPT !.op = "check_spread_filter",
                          !.ok = check_spread_filter(spread, avg_spread)]
    /\ UNCHANGED <<now, risk_mgr, botVars, arg, ret>>

GuardCalcQty(equity, confidence, mark_price) ==
    LET sized == calc_qty_from_equity(equity, confidence, mark_price, QtyStep, MinQty, 0,
                                      MultDen, NoBalance)
    IN  /\ ev' = [NoEv EXCEPT !.op = "calc_qty_from_equity", !.qty = sized.qty,
                              !.res = sized.reason]
        /\ UNCHANGED <<now, risk_mgr, botVars, arg, ret>>

GuardCheckTotalExposure(margin_total, equity) ==
    LET c == check_total_exposure(margin_total, equity)
    IN  /\ ev' = [NoEv EXCEPT !.op = "check_total_exposure", !.ok = c.ok, !.res = c.reason]
        /\ UNCHANGED <<now, risk_mgr, botVars, arg, ret>>

GuardGetStatus ==
    LET s == get_status(risk_mgr, now)
    IN  /\ risk_mgr' = s.risk
        /\ ev' = [NoEv EXCEPT !.op = "get_status", !.ok = s.status.can_trade,
                              !.reset = did_reset(risk_mgr, now)]
        /\ UNCHANGED <<now, botVars, arg, ret>>

GuardNext ==
    \/ \E p \in {-150, -50}, x \in {"SL_HIT", "TP_HIT"} : RiskRecordTrade(p, x)
    \/ RiskCanTrade
    \/ GuardGetStatus
    \/ \E rows \in {0, MinVolumeRows - 1, MinVolumeRows} :
          \E v \in {MIN_VOLUME_RATIO - 1, MIN_VOLUME_RATIO}, h \in BOOLEAN :
             GuardCheckEntryFilters(rows, v, h)
    \/ \E s \in {<<3, 1>>, <<4, 1>>, <<4, 0>>} : GuardCheckSpreadFilter(s[1], s[2])
    \/ \E c \in SizingConfidences : GuardCalcQty(9000, c, 1000)
    \/ \E m \in {0, 9000 * PriceDen} : GuardCheckTotalExposure(m, 9000)
    \/ \E d \in TimeSteps : Advance(d)

SpecGuard == RiskSpecInit /\ [][GuardNext]_vars

\* the fields of the RiskManager C24 speaks of
C24_RiskState(r) ==
    <<r.daily_pnl, r.daily_trade_count, r.consecutive_sl, r.cooldown_until, r.last_sl_times>>

\* C24 as stated: can_trade, check_entry_filters, check_spread_filter, the
\* sizing and check_total_exposure, called on the UTC date of the last reset,
\* leave daily_pnl, daily_trade_count, consecutive_sl, cooldown_until and
\* last_sl_times unchanged.
C24_AsStated ==
    [][(/\ ev'.op \in {"can_trade", "check_entry_filters", "check_spread_filter",
                       "calc_qty_from_equity", "check_total_exposure"}
        /\ risk_mgr.daily_reset_date = Today(now))
       => C24_RiskState(risk_mgr') = C24_RiskState(risk_mgr)]_vars

\* C24: check_entry_filters, check_spread_filter, the sizing and
\* check_total_exposure change no field of the RiskManager, on any date.
\* can_trade and get_status, called on the UTC date of the last reset, leave
\* daily_pnl, daily_trade_count and last_sl_times unchanged; they set
\* cooldown_until to None and consecutive_sl to 0 when they find an expired
\* cooldown and neither the daily loss limit nor the trade cap is reached,
\* and leave both unchanged otherwise.
C24_Frame ==
    [][/\ ev'.op \in {"check_entry_filters", "check_spread_filter",
                      "calc_qty_from_equity", "check_total_exposure"}
          => risk_mgr' = risk_mgr
       /\ (/\ ev'.op \in {"can_trade", "get_status"}
           /\ risk_mgr.daily_reset_date = Today(now))
          => /\ risk_mgr'.daily_pnl = risk_mgr.daily_pnl
             /\ risk_mgr'.daily_trade_count = risk_mgr.daily_trade_count
             /\ risk_mgr'.last_sl_times = risk_mgr.last_sl_times
             /\ risk_mgr'.daily_reset_date = risk_mgr.daily_reset_date
             /\ IF /\ risk_mgr.cooldown_until # NoTime /\ now >= risk_mgr.cooldown_until
                   /\ ~(ENFORCE_DAILY_LOSS_LIMIT
                        /\ risk_mgr.daily_pnl <= -MAX_DAILY_LOSS_PCT)
                   /\ risk_mgr.daily_trade_count < MAX_DAILY_TRADES
                THEN risk_mgr'.cooldown_until = NoTime /\ risk_mgr'.consecutive_sl = 0
                ELSE /\ risk_mgr'.cooldown_until = risk_mgr.cooldown_until
                     /\ risk_mgr'.consecutive_sl = risk_mgr.consecutive_sl]_vars

\* C24 witness: check_entry_filters called while a stop-loss time older than
\* the lookback window is still in last_sl_times, on the date of the last reset.
C24_Witness ==
    /\ ev.op = "check_entry_filters"
    /\ risk_mgr.daily_reset_date = Today(now)
    /\ \E i \in 1..Len(risk_mgr.last_sl_times) :
          risk_mgr.last_sl_times[i] <= now - RECENT_SL_LOOKBACK

\* C26: check_entry_filters reports recent_sl exactly when a stop-loss time
\* lies within the last RECENT_SL_LOOKBACK hours, low_volume exactly when the
\* history has at least MinVolumeRows rows and its last volume ratio is below
\* MIN_VOLUME_RATIO, already_in_position exactly when has_position is true,
\* each whatever the other two are, and passed exactly when all three are false.
C26_EntryFilters ==
    ev.op = "check_entry_filters"
    => LET recent == \E i \in 1..Len(risk_mgr.last_sl_times) :
                        now - risk_mgr.last_sl_times[i] < RECENT_SL_LOOKBACK
           low == ev.rows >= MinVolumeRows /\ ev.vol_ratio < MIN_VOLUME_RATIO
       IN  /\ ev.filters.recent_sl = recent
           /\ ev.filters.low_volume = low
           /\ ev.filters.already_in_position = ev.has_position
           /\ ev.filters.passed = (~recent /\ ~low /\ ~ev.has_position)

\* C26 witness: a history of 19 rows with a volume ratio below the minimum, no
\* position and a stop-loss time just outside the lookback window: passed.
C26_Witness ==
    /\ ev.op = "check_entry_filters"
    /\ ev.rows = MinVolumeRows - 1 /\ ev.vol_ratio < MIN_VOLUME_RATIO /\ ~ev.has_position
    /\ \E i \in 1..Len(risk_mgr.last_sl_times) :
          now - risk_mgr.last_sl_times[i] = RECENT_SL_LOOKBACK
    /\ ev.filters.passed

-----------------------------------------------------------------------------
(* Specification of the shutdown: one PositionManager whose close_position  *)
(* runs in two steps, the close order and the bookkeeping, and the signal   *)
(* handler of main(), which Python runs between two bytecodes of the main    *)
(* thread and which leaves through sys.exit(0).                              *)

\* close_position up to the close order (position.py 196-202); arg keeps the
\* call's arguments while the rest of it is still to run
ClosePositionOrder(price, exit_reason, order_ok) ==
    /\ ev.op # "sys.exit" /\ arg = NoArg
    /\ has_position(pos_managers[PosSymbol])
    /\ LET c == close_position(pos_managers[PosSymbol], risk_mgr, price, exit_reason,
                               close_accepted(PosSymbol, order_ok), now)
       IN  /\ exchange' = [exchange EXCEPT ![PosSymbol] = exchange_after(@, c.calls, price)]
           /\ server_stops' = [server_stops EXCEPT
                                 ![PosSymbol] = stops_after(@, c.mgr, 0, c.calls)]
           /\ arg' = IF c.calls.filled
                     THEN [fn |-> "close_position", current_price |-> price,
                           exit_reason |-> exit_reason]
                     ELSE NoArg
           /\ ev' = [NoEv EXCEPT !.op = "close_order", !.sym = PosSymbol, !.order = "close",
                                 !.filled = c.calls.filled, !.price = price,
                                 !.reason = exit_reason]
    /\ UNCHANGED <<now, risk_mgr, pos_managers, last_processed_candle_ts, trades_logged, ret>>

\* close_position after an accepted close order (position.py 204-279):
\* log_trade, record_trade and _reset
ClosePositionRecord ==
    /\ ev.op # "sys.exit" /\ arg.fn = "close_position"
    /\ LET c == close_position(pos_managers[PosSymbol], risk_mgr, arg.current_price,
                               arg.exit_reason, TRUE, now)
       IN  /\ pos_managers' = [pos_managers EXCEPT ![PosSymbol] = c.mgr]
           /\ risk_mgr' = c.risk
           /\ trades_logged' = trades_logged + 1
           /\ ev' = [NoEv EXCEPT !.op = "close_position", !.sym = PosSymbol,
                                 !.res = "CLOSED", !.price = arg.current_price,
                                 !.reason = arg.exit_reason]
    /\ arg' = NoArg
    /\ UNCHANGED <<now, last_processed_candle_ts, exchange, server_stops, ret>>

\* main.handle_signal: _shutdown sets running = False, then sys.exit(0) raises
\* SystemExit where the main thread stands; no handler of the bot catches it
\* (they catch Exception), so the process ends there
HandleSignal ==
    /\ ev.op # "sys.exit"
    /\ ev' = [NoEv EXCEPT !.op = "sys.exit"]
    /\ UNCHANGED <<now, risk_mgr, botVars, arg, ret>>

ShutdownNext ==
    \/ \E side \in PosSides, price \in PosEntryPrices, a \in PosOpenArgs, order_ok \in BOOLEAN :
          ev.op # "sys.exit" /\ arg = NoArg /\ PosOpen(side, price, a, order_ok, TRUE)
    \/ \E price \in PosPrices, x \in {"SL_HIT", "TP_HIT", "MANUAL_CLOSE"}, order_ok \in BOOLEAN :
          ClosePositionOrder(price, x, order_ok)
    \/ ClosePositionRecord
    \/ HandleSignal

SpecShutdown == PosInit /\ [][ShutdownNext]_vars

\* C27: a shutdown signal that arrives while a tick is running lets the tick
\* finish: when the process has ended, no close_position call is left between
\* its accepted close order and its bookkeeping, so the manager holds a
\* position exactly when the exchange does.
C27_TickFinishes ==
    ev.op = "sys.exit"
    => /\ arg.fn # "close_position"
       /\ has_position(pos_managers[PosSymbol]) <=> exchange[PosSymbol].size > 0

-----------------------------------------------------------------------------
(* Specification of the bot with failing exchange queries: the first        *)
(* symbol's signal cycle and monitoring, each of which may be cut short by  *)
(* a query that raises, over a change of UTC date.                          *)

\* one symbol's turn in TradingBot._signal_cycle when an exchange query raises:
\* the handler at bot.py lines 709-710 logs SIGNAL_ERROR and the cycle goes on
AnalyzeSymbolFails(s, mkt, close, fail_at) ==
    \E a \in {analyze_symbol_failing(pos_managers[s], risk_mgr, pos_managers,
                                     last_processed_candle_ts[s], now, mkt.buy_count,
                                     mkt.sell_count, close, mkt.low_volume, now, fail_at)} :
        /\ a.raised
        /\ pos_managers' = [pos_managers EXCEPT ![s] = a.mgr]
        /\ risk_mgr' = a.risk
        /\ server_stops' = [server_stops EXCEPT
                              ![s] = stops_after(@, a.mgr, a.sl_update, NoCalls)]
        /\ ev' = [NoEv EXCEPT !.op = "SIGNAL_ERROR", !.sym = s, !.res = fail_at]
        /\ UNCHANGED <<now, last_processed_candle_ts, exchange, trades_logged, arg, ret>>

\* one symbol's turn in the monitoring loop when an exchange query raises: the
\* handler at bot.py lines 933-934 logs MONITOR_ERROR (for a manager without
\* a position, the loop's handler at lines 135-138 logs MAIN_LOOP_ERROR)
MonitorTickFails(s, fail_at) ==
    LET a == monitor_position_failing(pos_managers[s], risk_mgr, exchange[s], now, fail_at)
    IN  /\ a.raised
        /\ pos_managers' = [pos_managers EXCEPT ![s] = a.mgr]
        /\ risk_mgr' = a.risk
        /\ ev' = [NoEv EXCEPT !.op = "MONITOR_ERROR", !.sym = s, !.res = fail_at]
        /\ UNCHANGED <<now, last_processed_candle_ts, exchange, server_stops,
                       trades_logged, arg, ret>>

\* time.sleep(10), or the time.sleep(30) of the loop's handler
FailureSleep ==
    /\ now + 1 <= MaxFailClock
    /\ now' = now + 1
    /\ ev' = [NoEv EXCEPT !.op = "sleep"]
    /\ UNCHANGED <<risk_mgr, botVars, arg, ret>>

FailureNext ==
    \/ \E mkt \in {Market(3, 0, FALSE, 30000, TRUE), Market(0, 3, FALSE, 30000, TRUE)} :
          \E close \in {965, 1000, 1035}, avail \in AvailableBalances :
             AnalyzeSymbol(SymbolList[1], mkt, close, avail)
    \/ \E last_price \in {965, 1000, 1035}, order_ok \in BOOLEAN :
          MonitorTick(SymbolList[1], last_price, order_ok)
    \/ \E mkt \in {Market(3, 0, FALSE, 30000, TRUE), Market(0, 3, FALSE, 30000, TRUE)} :
          \E close \in {965, 1000, 1035}, fail_at \in {"get_klines", "get_balance"} :
             AnalyzeSymbolFails(SymbolList[1], mkt, close, fail_at)
    \/ \E fail_at \in {"get_position", "get_ticker"} :
          MonitorTickFails(SymbolList[1], fail_at)
    \/ ServerClose(SymbolList[1])
    \/ FailureSleep

SpecFailure == Init /\ [][FailureNext]_vars

\* C28: after a tick that an exchange failure cut short, the symbol's
\* position fields and the RiskManager equal their values at the start of the
\* tick.
C28_FailedTickChangesNothing ==
    [][ev'.op \in {"SIGNAL_ERROR", "MONITOR_ERROR"}
       => /\ pos_managers'[ev'.sym] = pos_managers[ev'.sym]
          /\ risk_mgr' = risk_mgr]_vars

-----------------------------------------------------------------------------
(* The bot on its first symbol with server-side closures: the loop of run() *)
(* runs the signal cycle when one is due and then the monitoring step, and  *)
(* the monitoring step keeps being run for as long as the bot runs.          *)

ReconcileNext ==
    \/ \E mkt \in {Market(3, 0, FALSE, 30000, TRUE), Market(0, 3, FALSE, 30000, TRUE)} :
          \E close \in {965, 1000, 1035}, avail \in AvailableBalances :
             AnalyzeSymbol(SymbolList[1], mkt, close, avail)
    \/ \E last_price \in {965, 1000, 1035}, order_ok \in BOOLEAN :
          MonitorTick(SymbolList[1], last_price, order_ok)
    \/ ServerClose(SymbolList[1])
    \/ Sleep

SpecReconcile ==
    /\ Init
    /\ [][ReconcileNext]_vars
    /\ WF_vars(\E last_price \in {965, 1000, 1035}, order_ok \in BOOLEAN :
                  MonitorTick(SymbolList[1], last_price, order_ok))

\* C38: when the manager holds a position that the exchange no longer has
\* (and the trade log has room for its record), the manager eventually has no
\* position.
C38_GonePositionIsReconciled ==
    (/\ has_position(pos_managers[SymbolList[1]])
     /\ exchange[SymbolList[1]].size = 0
     /\ trades_logged < MaxTrades)
    ~> ~has_position(pos_managers[SymbolList[1]])

-----------------------------------------------------------------------------
(* The bot on both symbols over a change of date: every symbol's signal     *)
(* cycle and monitoring step use the one RiskManager the bot constructed.   *)

LockoutSleep ==
    /\ now + 1 <= MaxLockoutClock
    /\ now' = now + 1
    /\ ev' = [NoEv EXCEPT !.op = "sleep"]
    /\ UNCHANGED <<risk_mgr, botVars, arg, ret>>

LockoutNext ==
    \/ \E s \in Symbols, close \in {980, 1000}, avail \in AvailableBalances :
          AnalyzeSymbol(s, Market(3, 0, FALSE, 30000, TRUE), close, avail)
    \/ \E s \in Symbols, last_price \in {980, 1000} :
          MonitorTick(s, last_price, TRUE)
    \/ LockoutSleep

SpecLockout == Init /\ [][LockoutNext]_vars

\* a stop-loss time of the RiskManager r is less than RECENT_SL_LOOKBACK old at t
C39_RecentStopLoss(r, t) ==
    \E i \in 1..Len(r.last_sl_times) : t - r.last_sl_times[i] < RECENT_SL_LOOKBACK

\* C39: a software stop-loss of any symbol is recorded with its time in the
\* one RiskManager; while a recorded time is less than RECENT_SL_LOOKBACK old,
\* check_entry_filters reports recent_sl and passed = FALSE and no signal cycle
\* places an entry order for any symbol; a step that is not a trade and finds
\* such a time leaves the RiskManager as it is, the date of its last daily
\* reset included; the recorded times go away only by a daily reset.
C39_RecentStopLossLocksAllSymbols ==
    [][/\ (ev'.res = "SL_HIT" /\ ev'.order = "close" /\ ev'.filled)
           => /\ Len(risk_mgr'.last_sl_times) > 0
              /\ risk_mgr'.last_sl_times[Len(risk_mgr'.last_sl_times)] = now
       /\ C39_RecentStopLoss(risk_mgr, now)
           => /\ check_entry_filters(risk_mgr, FALSE, FALSE, now).recent_sl
              /\ ~check_entry_filters(risk_mgr, FALSE, FALSE, now).passed
              /\ \A s \in Symbols : ~(ev'.sym = s /\ ev'.order = "entry")
              /\ (trades_logged' = trades_logged) => (risk_mgr' = risk_mgr)
       /\ (~C39_RecentStopLoss(risk_mgr, now) /\ ~did_reset(risk_mgr, now))
           => ~check_entry_filters(risk_mgr, FALSE, FALSE, now).recent_sl
       /\ (risk_mgr'.last_sl_times # risk_mgr.last_sl_times)
           => \/ ev'.res = "SL_HIT"
              \/ did_reset(risk_mgr, now) /\ risk_mgr'.last_sl_times = <<>>
      ]_vars

\* C39 witness: a recorded stop-loss is less than RECENT_SL_LOOKBACK old on
\* the next day, a tick has just found both symbols flat and placed no order,
\* and the daily reset has not yet been done.
C39_Witness ==
    /\ trades_logged = 1
    /\ C39_RecentStopLoss(risk_mgr, now)
    /\ did_reset(risk_mgr, now)
    /\ ev.op = "idle"
    /\ \A s \in Symbols : ~has_position(pos_managers[s])

-----------------------------------------------------------------------------
(* Unit-level specification of the signal engine: generate_signals applied  *)
(* to histories of several lengths and to every combination of votes.       *)

SignalArgs ==
    [fn : {"generate_signals"}, rows : {0, 1, MinRows - 1, MinRows, MinRows + 1},
     ma_val : {-1, 0, 1}, rsi_val : {-1, 0, 1}, bb_val : {-1, 0, 1}, mtf_val : {-1, 0, 1}]

SignalInit ==
    /\ now \in StartHours
    /\ risk_mgr = RiskInit(now)
    /\ BotIdle
    /\ ev = NoEv
    /\ arg \in SignalArgs
    /\ ret = NoRet

GenerateSignals ==
    /\ arg.fn = "generate_signals"
    /\ ret = NoRet
    /\ ret' = [fn |-> "generate_signals",
               out |-> generate_signals_df(arg.rows, arg.ma_val, arg.rsi_val, arg.bb_val,
                                           arg.mtf_val)]
    /\ UNCHANGED <<now, risk_mgr, botVars, ev, arg>>

SignalNext == GenerateSignals

SpecSignal == SignalInit /\ [][SignalNext]_vars

\* the votes of the call under test and how many of them are +1 and -1
SignalValues == <<arg.ma_val, arg.rsi_val, arg.bb_val, arg.mtf_val>>
SignalBuys == Cardinality({i \in 1..4 : SignalValues[i] = 1})
SignalSells == Cardinality({i \in 1..4 : SignalValues[i] = -1})

\* C22: on a full history, for every assignment of the four votes, the
\* combined signal is +1 exactly when at least two voters vote +1 and none
\* votes -1, -1 exactly when at least two vote -1 and none votes +1, and 0
\* otherwise; the confidence is the larger of the two counts, hence 2, 3 or 4
\* whenever the combined signal is not 0.
C22_MajorityRule ==
    (ret.fn = "generate_signals" /\ arg.rows >= MinRows)
    => /\ ret.out.combined_signal \in {-1, 0, 1}
       /\ ret.out.combined_signal = 1 <=> (SignalBuys >= 2 /\ SignalSells = 0)
       /\ ret.out.combined_signal = -1 <=> (SignalSells >= 2 /\ SignalBuys = 0)
       /\ ret.out.buy_count = SignalBuys /\ ret.out.sell_count = SignalSells
       /\ ret.out.confidence = Max(SignalBuys, SignalSells)
       /\ ret.out.combined_signal # 0 => ret.out.confidence \in {2, 3, 4}
       /\ \A i \in 1..4 : ret.out.voters[i].value = SignalValues[i]

\* C22 witness: three voters vote +1 and one votes -1 on a full history; the
\* combined signal is 0 with confidence 3.
C22_Witness ==
    /\ ret.fn = "generate_signals" /\ arg.rows >= MinRows
    /\ SignalBuys = 3 /\ SignalSells = 1
    /\ ret.out.combined_signal = 0 /\ ret.out.confidence = 3

\* C23: for a history that is empty or shorter than MinRows rows the result has
\* combined signal 0, both counts and the confidence 0, and every voter at
\* value 0 with the reason "Insufficient data"; no voter is evaluated.
C23_InsufficientData ==
    (ret.fn = "generate_signals" /\ arg.rows < MinRows)
    => /\ ret.out.combined_signal = 0
       /\ ret.out.buy_count = 0 /\ ret.out.sell_count = 0 /\ ret.out.confidence = 0
       /\ \A i \in 1..4 : ret.out.voters[i] = [value |-> 0, reason |-> "Insufficient data"]
       /\ ret.out.voters_called = 0

\* C23 witness: all four voters would vote +1 on the last of 199 rows, and the
\* result is still no signal.
C23_Witness ==
    /\ ret.fn = "generate_signals" /\ arg.rows = MinRows - 1
    /\ SignalBuys = 4
    /\ ret.out.combined_signal = 0 /\ ret.out.confidence = 0

-----------------------------------------------------------------------------
(* Unit-level specification of the exchange wrapper's order call: the       *)
(* account's mode, what a fresh detection would find and the client's        *)
(* answers are drawn at the start, then place_order is applied.              *)

ExchangeArgs ==
    [fn : {"place_order"}, side : {"Buy", "Sell"}, mode : {"ONE_WAY", "HEDGE"},
     detected : {"ONE_WAY", "HEDGE", "error"},
     responses : [1..(2 * DefaultRetries) -> {"ok", "idx_error", "error"}]]
    \cup [fn : {"api_call"}, retries : 1..DefaultRetries,
          responses : [1..(2 * DefaultRetries) -> {"ok", "idx_error", "error"}]]

ExchangeInit ==
    /\ now \in StartHours
    /\ risk_mgr = RiskInit(now)
    /\ BotIdle
    /\ ev = NoEv
    /\ arg \in ExchangeArgs
    /\ ret = NoRet

PlaceOrder ==
    /\ arg.fn = "place_order"
    /\ ret = NoRet
    /\ ret' = [fn |-> "place_order",
               out |-> place_order(arg.side, arg.mode, arg.detected, arg.responses)]
    /\ UNCHANGED <<now, risk_mgr, botVars, ev, arg>>

\* one wrapped exchange call, self._api_call(func, retries, **kwargs)
ApiCall ==
    /\ arg.fn = "api_call"
    /\ ret = NoRet
    /\ ret' = [fn |-> "api_call", out |-> api_call(arg.responses, 1, 1, arg.retries)]
    /\ UNCHANGED <<now, risk_mgr, botVars, ev, arg>>

ExchangeNext == PlaceOrder \/ ApiCall

SpecExchange == ExchangeInit /\ [][ExchangeNext]_vars

\* the invocation of client.place_order that is answered with the first
\* position-index error, all invocations before it having failed otherwise
\* (0: there is none within the first DefaultRetries invocations)
C30_FirstIdxError ==
    IF \E k \in 1..DefaultRetries :
          /\ arg.responses[k] = "idx_error"
          /\ \A j \in 1..(k - 1) : arg.responses[j] = "error"
    THEN CHOOSE k \in 1..DefaultRetries :
            /\ arg.responses[k] = "idx_error"
            /\ \A j \in 1..(k - 1) : arg.responses[j] = "error"
    ELSE 0

C31_BoundedRetry ==
    ret.fn = "api_call"
    => LET n == ret.out.last
           r == arg.responses
       IN  /\ n \in 1..arg.retries
           /\ ret.out.res = r[n]
           /\ \A j \in 1..(n - 1) : r[j] = "error"
           /\ ret.out.res = "error" => n = arg.retries

\* C31 witness: with retries = 3 the call fails twice and then succeeds (three
\* invocations, the third response returned), or fails three times and
\* raises.
C31_Witness ==
    /\ ret.fn = "api_call" /\ arg.retries = DefaultRetries
    /\ arg.responses[1] = "error" /\ arg.responses[2] = "error"
    /\ ret.out.last = DefaultRetries
    /\ ret.out.res = arg.responses[DefaultRetries]
    /\ ret.out.res \in {"ok", "error"}

-----------------------------------------------------------------------------
(* Claims about the RiskManager, checked under SpecRisk *)

SameDay == risk_mgr.daily_reset_date = Today(now)
LimitsClear ==
    /\ risk_mgr.daily_pnl > -MAX_DAILY_LOSS_PCT
    /\ risk_mgr.daily_trade_count < MAX_DAILY_TRADES
CooldownSet == risk_mgr.cooldown_until # NoTime
CooldownRunning == CooldownSet /\ now < risk_mgr.cooldown_until
CooldownElapsed == CooldownSet /\ now >= risk_mgr.cooldown_until

\* C4 as stated: once the streak has reached K, canTrade() is false with the
\* cooldown reason until cooldownUntil, and once cooldownUntil has elapsed it is
\* true with consecutiveStopLossCount = 0.
C4_AsStated ==
    [][ev'.op = "can_trade" /\ SameDay =>
          /\ (CooldownRunning /\ risk_mgr.consecutive_sl >= COOLDOWN_AFTER_SL_STREAK
                => ~ev'.ok /\ ev'.res = "cooldown")
          /\ (CooldownElapsed => ev'.ok /\ risk_mgr'.consecutive_sl = 0)]_vars

\* C4 (amended): a recordTrade that brings the streak to K or more sets the
\* cooldown, and canTrade() is false right after it; a canTrade() on the same
\* UTC date before cooldownUntil is false, with the cooldown reason exactly when
\* neither the daily loss limit nor the daily trade cap is reached; a canTrade()
\* at or after cooldownUntil with neither daily limit reached is true, clears
\* the cooldown and leaves consecutiveStopLossCount = 0.
C4_Cooldown ==
    [][/\ (ev'.op = "record_trade" /\ ev'.reason = "SL_HIT"
             /\ risk_mgr'.consecutive_sl >= COOLDOWN_AFTER_SL_STREAK
           => /\ risk_mgr'.cooldown_until = now + COOLDOWN_HOURS
              /\ ~can_trade(risk_mgr', now').ok)
       /\ (ev'.op = "can_trade" /\ SameDay /\ CooldownRunning
           => /\ ~ev'.ok
              /\ (ev'.res = "cooldown" <=> LimitsClear)
              /\ risk_mgr' = risk_mgr)
       /\ (ev'.op = "can_trade" /\ SameDay /\ CooldownElapsed /\ LimitsClear
           => /\ ev'.ok
              /\ risk_mgr'.consecutive_sl = 0
              /\ risk_mgr'.cooldown_until = NoTime)]_vars

\* C4 witness: on a day with K recorded stop-losses, canTrade() has just released
\* the elapsed cooldown and returned true with the streak at 0.
C4_Witness ==
    /\ ev.op = "can_trade" /\ ev.ok /\ ev.log = "cooldown_released"
    /\ ~ev.reset
    /\ Len(risk_mgr.last_sl_times) >= COOLDOWN_AFTER_SL_STREAK
    /\ risk_mgr.consecutive_sl = 0

DailyLossBlocked == ~can_trade(risk_mgr, now).ok /\ risk_mgr.daily_pnl <= -MAX_DAILY_LOSS_PCT

\* C5 as stated: canTrade() is false once dailyPnLPct <= -maxDailyLossPct, stays
\* false for every later call on the same UTC date, and is true on the first
\* call after the date has changed.
C5_AsStated ==
    [][/\ (ev'.op = "can_trade" /\ risk_mgr'.daily_pnl <= -MAX_DAILY_LOSS_PCT => ~ev'.ok)
       /\ (DailyLossBlocked /\ SameDay /\ Today(now') = Today(now)
           => ~can_trade(risk_mgr', now').ok)
       /\ (ev'.op = "can_trade" /\ ev'.reset => ev'.ok)]_vars

\* C5 (amended): every canTrade() call made while dailyPnLPct <= -maxDailyLossPct
\* (boundary inclusive) returns false with the daily-loss reason, so it is false
\* as soon as the limit is reached and for as long as dailyPnLPct stays at or
\* below it on that UTC date; the first call after the UTC date has changed
\* returns true.
C5_DailyLoss ==
    /\ (ev.op = "can_trade" /\ risk_mgr.daily_pnl <= -MAX_DAILY_LOSS_PCT
        => ~ev.ok /\ ev.res = "daily_loss")
    /\ (ev.op = "can_trade" /\ ev.reset => ev.ok /\ risk_mgr.daily_pnl = 0)

\* C5 witness: canTrade() has just returned false with dailyPnLPct exactly at
\* -maxDailyLossPct.
C5_Witness ==
    /\ ev.op = "can_trade" /\ ~ev.ok /\ ev.res = "daily_loss"
    /\ risk_mgr.daily_pnl = -MAX_DAILY_LOSS_PCT

\* C6: the first recordTrade or canTrade after the UTC date rolled over zeroes
\* the daily counters, the streak and the stop-loss timestamps and clears the
\* cooldown before applying its own effect; a call on the same date resets nothing.
C6_DailyReset ==
    [][/\ (ev'.op = "record_trade" /\ ~SameDay
           => /\ ev'.reset
              /\ risk_mgr'.daily_reset_date = Today(now)
              /\ risk_mgr'.daily_trade_count = 1
              /\ risk_mgr'.daily_pnl = ev'.pnl
              /\ risk_mgr'.consecutive_sl = (IF ev'.reason = "SL_HIT" THEN 1 ELSE 0)
              /\ risk_mgr'.last_sl_times
                     = (IF ev'.reason = "SL_HIT" THEN <<now>> ELSE <<>>)
              /\ risk_mgr'.cooldown_until
                     = (IF ev'.reason = "SL_HIT" /\ 1 >= COOLDOWN_AFTER_SL_STREAK
                        THEN now + COOLDOWN_HOURS ELSE NoTime))
       /\ (ev'.op = "can_trade" /\ ~SameDay
           => /\ ev'.reset
              /\ risk_mgr' = RiskInit(now))
       /\ (ev'.op = "record_trade" /\ SameDay
           => /\ ~ev'.reset
              /\ risk_mgr'.daily_trade_count = risk_mgr.daily_trade_count + 1
              /\ risk_mgr'.daily_pnl = risk_mgr.daily_pnl + ev'.pnl
              /\ Len(risk_mgr'.last_sl_times) >= Len(risk_mgr.last_sl_times)
              /\ (CooldownSet => risk_mgr'.cooldown_until # NoTime))
       /\ (ev'.op = "can_trade" /\ SameDay
           => /\ ~ev'.reset
              /\ risk_mgr'.daily_trade_count = risk_mgr.daily_trade_count
              /\ risk_mgr'.daily_pnl = risk_mgr.daily_pnl
              /\ risk_mgr'.last_sl_times = risk_mgr.last_sl_times
              /\ (CooldownRunning => risk_mgr' = risk_mgr))]_vars

\* C6 witness: a recordTrade was the first call after a rollover and left
\* dailyTradeCount = 1.
C6_Witness ==
    /\ ev.op = "record_trade" /\ ev.reset
    /\ risk_mgr.daily_trade_count = 1
    /\ risk_mgr.daily_reset_date = Today(now)

\* the RiskState a call starts from, once its daily reset has been applied
AfterReset == IF SameDay THEN risk_mgr ELSE RiskInit(now)

\* C7: recordTrade adds pnl to dailyPnLPct and one to dailyTradeCount; a
\* stop-loss increments the streak, appends a timestamp and sets the cooldown
\* when the streak is >= K; any other reason resets the streak to 0 and leaves
\* the cooldown and the stop-loss timestamps unchanged.
C7_RecordTrade ==
    [][ev'.op = "record_trade" =>
          /\ risk_mgr'.daily_pnl = AfterReset.daily_pnl + ev'.pnl
          /\ risk_mgr'.daily_trade_count = AfterReset.daily_trade_count + 1
          /\ (ev'.reason = "SL_HIT"
              => /\ risk_mgr'.consecutive_sl = AfterReset.consecutive_sl + 1
                 /\ risk_mgr'.last_sl_times = Append(AfterReset.last_sl_times, now)
                 /\ (risk_mgr'.consecutive_sl >= COOLDOWN_AFTER_SL_STREAK
                     => risk_mgr'.cooldown_until = now + COOLDOWN_HOURS))
          /\ (ev'.reason # "SL_HIT"
              => /\ risk_mgr'.consecutive_sl = 0
                 /\ risk_mgr'.cooldown_until = AfterReset.cooldown_until
                 /\ risk_mgr'.last_sl_times = AfterReset.last_sl_times)]_vars

\* C7 witness: a non-stop-loss trade recorded while a cooldown is set reset the
\* streak and left the cooldown and the K timestamps in place.
C7_Witness ==
    /\ ev.op = "record_trade" /\ ev.reason = "TP_HIT" /\ ~ev.reset
    /\ risk_mgr.consecutive_sl = 0
    /\ risk_mgr.cooldown_until # NoTime
    /\ Len(risk_mgr.last_sl_times) >= COOLDOWN_AFTER_SL_STREAK


\* C25: the counters of the RiskManager never go negative: in every state
\* reached through record_trade, can_trade and daily resets,
\* 0 <= consecutive_sl <= daily_trade_count.
C25_CountersInRange ==
    /\ 0 <= risk_mgr.consecutive_sl
    /\ risk_mgr.consecutive_sl <= risk_mgr.daily_trade_count

\* C25 witness: the first trade recorded after the UTC date has changed is a
\* stop-loss: the call resets the counters, then the streak is 1, as is the
\* trade count.
C25_Witness ==
    /\ ev.op = "record_trade" /\ ev.reason = "SL_HIT" /\ ev.reset
    /\ risk_mgr.consecutive_sl = 1 /\ risk_mgr.daily_trade_count = 1

-----------------------------------------------------------------------------
(* Claims about the orchestrator, checked under Spec *)

\* C1: a symbol has at most one open position at a time: no step places an
\* entry order for a symbol whose manager holds a position, and a manager that
\* holds a position before and after a step holds the same position (same side,
\* entry time and trade id).
C1_OnePositionPerSymbol ==
    [][\A s \in Symbols :
          pos_managers[s].side # ""
          => /\ ~(ev'.order = "entry" /\ ev'.sym = s)
             /\ (pos_managers'[s].side # ""
                 => /\ pos_managers'[s].side = pos_managers[s].side
                    /\ pos_managers'[s].entry_time = pos_managers[s].entry_time
                    /\ pos_managers'[s].trade_id = pos_managers[s].trade_id)]_vars

\* C1 witness: a manual long or short command has just been refused for a
\* symbol whose manager holds a position that the exchange holds as well.
C1_Witness ==
    /\ ev.op \in {"cmd_long", "cmd_short"}
    /\ ev.res = "HAS_POSITION"
    /\ ev.order = ""
    /\ pos_managers[ev.sym].side # ""
    /\ exchange[ev.sym].size = pos_managers[ev.sym].qty

\* C8: a signal-cycle step taken while can_trade() is false gets no entry order
\* filled, neither an initial entry (open_position) nor a pyramid add
\* (add_position).
C8_NoEntryWhenBlocked ==
    [][(ev'.op = "analyze" /\ ev'.order \in {"entry", "add"} /\ ev'.filled)
       => can_trade(risk_mgr, now).ok]_vars

\* C9: every entry order of a manager without a position is filled in a step
\* in which check_total_exposure, applied to the margin of all open positions
\* and the equity the step read, passes; check_total_exposure fails exactly
\* when equity <= 0 or margin / equity x 100 >= MAX_TOTAL_EXPOSURE_PCT.
C9_ExposureChecked ==
    [][(ev'.order = "entry" /\ ev'.filled)
       => /\ ev'.equity > 0
          /\ current_margin_total(pos_managers) * PctDen
                 < MAX_TOTAL_EXPOSURE_PCT * ev'.equity * PriceDen
          /\ check_total_exposure(current_margin_total(pos_managers), ev'.equity).ok]_vars

\* C20: no manager ever has more than PYRAMID_MAX_ADDS adds, and a filled add
\* order is sent only by the signal cycle, for a manager that holds a
\* position with fewer than PYRAMID_MAX_ADDS adds, on a combined signal for
\* the held side, and with the position's P&L at the candle's close at least
\* PYRAMID_MIN_PROFIT_PCT.
C20_AddsLimited ==
    [][/\ \A s \in Symbols : pos_managers'[s].add_count <= PYRAMID_MAX_ADDS
       /\ \A s \in Symbols :
             (ev'.order = "add" /\ ev'.filled /\ ev'.sym = s)
             => LET m == pos_managers[s]
                    gain == IF m.side = "Buy" THEN ev'.price * PriceDen - m.entry_price
                            ELSE m.entry_price - ev'.price * PriceDen
                IN  /\ ev'.op = "analyze"
                    /\ has_position(m)
                    /\ m.add_count < PYRAMID_MAX_ADDS
                    /\ pos_managers'[s].add_count = m.add_count + 1
                    /\ ev'.signal = IF m.side = "Buy" THEN 1 ELSE -1
                    /\ gain * PctDen >= PYRAMID_MIN_PROFIT_PCT * m.entry_price]_vars

\* C20 witness: the signal cycle has just filled the last add the limit allows.
C20_Witness ==
    /\ ev.op = "analyze" /\ ev.order = "add" /\ ev.filled
    /\ pos_managers[ev.sym].add_count = PYRAMID_MAX_ADDS

\* C37: with TRADE_ON_CANDLE_CLOSE_ONLY, a signal tick that reaches the entry
\* branch for a symbol (no position, a clear signal, filters passed) records
\* the candle it saw, whatever it decides (open, order rejected, blocked,
\* skipped), and a signal tick that sees the recorded candle again places no
\* entry order for that symbol, also when the position has been closed in
\* the meantime.
C37_OneEntryDecisionPerCandle ==
    [][TRADE_ON_CANDLE_CLOSE_ONLY
       => \A s \in Symbols :
             /\ last_processed_candle_ts[s] = now
                => ~(ev'.op = "analyze" /\ ev'.sym = s /\ ev'.order = "entry")
             /\ (ev'.op = "analyze" /\ ev'.sym = s /\ ev'.order = "entry")
                => last_processed_candle_ts'[s] = now
             /\ ~has_position(pos_managers[s])
                => \A mkt \in Markets(s) :
                      (/\ generate_signals(mkt.buy_count, mkt.sell_count).combined_signal # 0
                       /\ check_entry_filters(risk_mgr, mkt.low_volume, FALSE, now).passed)
                      => \A close \in LastPrices(s), avail \in AvailableBalances :
                            analyze_symbol(pos_managers[s], risk_mgr, pos_managers, FALSE,
                                           last_processed_candle_ts[s], now, mkt.buy_count,
                                           mkt.sell_count, close, mkt.low_volume,
                                           mkt.total_equity, avail, mkt.order_ok,
                                           close_accepted(s, mkt.order_ok), now).ts = now]_vars

\* C37 witness: the entry branch has recorded the candle in progress, the
\* position held on it has been closed by the monitoring loop, the symbol is
\* flat again and the candle is still the recorded one.
C37_Witness ==
    /\ trades_logged = 1
    /\ ev.op = "monitor" /\ ev.sym = SymbolList[1] /\ ev.order = "close" /\ ev.filled
    /\ ~has_position(pos_managers[SymbolList[1]])
    /\ last_processed_candle_ts[SymbolList[1]] = now
    /\ now > BotStartHour

-----------------------------------------------------------------------------
(* Claims about the PositionManager, checked under SpecPos *)

\* the exit conditions of a position m at a price, a combined signal and a time
C2_StopLoss(m, price) ==
    pct_change(m.entry_price, price * PriceDen, m.side) <= -STOP_LOSS_PCT
C2_TakeProfit(m, price) ==
    pct_change(m.entry_price, price * PriceDen, m.side) >= TAKE_PROFIT_PCT
\* trailing was active before the call and the price has come back from the
\* trailing extreme by the callback percentage or more
C2_Trailing(m, price) ==
    /\ ENABLE_TRAILING_STOP /\ m.trailing_active
    /\ IF m.side = "Buy"
       THEN (m.trailing_high - price) * PctDen >= TRAILING_STOP_CALLBACK_PCT * m.trailing_high
       ELSE (price - m.trailing_high) * PctDen >= TRAILING_STOP_CALLBACK_PCT * m.trailing_high
C2_Reversal(m, signal) ==
    (m.side = "Buy" /\ signal = -1) \/ (m.side = "Sell" /\ signal = 1)
C2_TimeExit(m, price, t) ==
    /\ t - m.entry_time >= TIME_EXIT_HOURS
    /\ IF m.side = "Buy" THEN price * PriceDen < m.entry_price
       ELSE price * PriceDen > m.entry_price
C2_FirstTrigger(m, price, signal, t) ==
    IF m.side = "" THEN ""
    ELSE IF C2_StopLoss(m, price) THEN "SL_HIT"
    ELSE IF C2_TakeProfit(m, price) THEN "TP_HIT"
    ELSE IF C2_Trailing(m, price) THEN "TRAILING_STOP"
    ELSE IF C2_Reversal(m, signal) THEN "SIGNAL_REVERSE"
    ELSE IF C2_TimeExit(m, price, t) THEN "TIME_EXIT"
    ELSE ""

\* C2: check_exit returns the first trigger whose condition holds, in the order
\* stop-loss, take-profit, trailing stop, signal reversal, time exit, and none
\* when no condition holds or the manager has no position; whenever the
\* unrealized P&L is <= -STOP_LOSS_PCT the result is the stop-loss.
C2_ExitPriority ==
    [][ev'.op = "check_exit"
       => /\ ev'.res = C2_FirstTrigger(pos_managers[PosSymbol], ev'.price, ev'.signal, now)
          /\ (pos_managers[PosSymbol].side # ""
                 /\ C2_StopLoss(pos_managers[PosSymbol], ev'.price)
              => ev'.res = "SL_HIT")]_vars

\* C2 witness: check_exit has just returned the stop-loss for a long position
\* at exactly -STOP_LOSS_PCT, called with an opposing signal after
\* TIME_EXIT_HOURS, so the signal reversal and the time exit held as well.
C2_Witness ==
    /\ ev.op = "check_exit" /\ ev.res = "SL_HIT"
    /\ ev.price = 980 /\ ev.signal = -1
    /\ now >= TIME_EXIT_HOURS
    /\ exchange[PosSymbol] = NoPos

\* C3: once trailing is active, the stop price the exchange holds only
\* tightens while the position stays open: over check_exit and add_position
\* calls it never decreases for a long and never increases for a short.
C3_StopOnlyTightens ==
    [][(/\ ev'.op \in {"check_exit", "add_position"}
        /\ pos_managers[PosSymbol].trailing_active
        /\ server_stops[PosSymbol].sl # 0
        /\ pos_managers'[PosSymbol].side # "")
       => IF pos_managers[PosSymbol].side = "Buy"
          THEN server_stops'[PosSymbol].sl >= server_stops[PosSymbol].sl
          ELSE server_stops'[PosSymbol].sl <= server_stops[PosSymbol].sl]_vars

\* the quantity the last open_position / add_position call worked with: the
\* override or the add quantity when one was given, else margin x leverage /
\* price rounded down to the quantity step
C12_Requested ==
    IF ev.op = "open_position" /\ ev.qty <= 0
    THEN round_qty(ev.margin * LEVERAGE, ev.price, QtyStep)
    ELSE ev.qty

\* C12: open_position (whether the quantity is computed or overridden) and
\* add_position called with a quantity below the minimum order quantity fail
\* without placing an order and change nothing, so a position they leave
\* behind always has a quantity of at least the minimum.
C12_QtyAtLeastMin ==
    [][ev'.op \in {"open_position", "add_position"}
       => /\ (C12_Requested' < PosMinQty
               => /\ ev'.res \in {"OPEN_FAILED", "PYRAMID_FAILED"}
                  /\ ev'.order = ""
                  /\ UNCHANGED <<pos_managers, exchange, server_stops, risk_mgr>>)
          /\ (has_position(pos_managers'[PosSymbol])
               => pos_managers'[PosSymbol].qty >= PosMinQty)]_vars

\* C12 witness: open_position was given a margin that buys less than the
\* minimum quantity, and was refused without an order.
C12_Witness ==
    /\ ev.op = "open_position" /\ ev.qty = 0 /\ ev.margin > 0
    /\ C12_Requested > 0 /\ C12_Requested < PosMinQty
    /\ ev.res = "OPEN_FAILED" /\ ev.order = ""
    /\ ~has_position(pos_managers[PosSymbol])

\* the fields of manager m that describe its position
C16_Position(m) ==
    [trade_id |-> m.trade_id, entry_time |-> m.entry_time, entry_price |-> m.entry_price,
     side |-> m.side, qty |-> m.qty, add_count |-> m.add_count]

C17_OpenedAsAsked ==
    [][(ev'.op = "open_position" /\ ev'.res = "OPEN")
       => LET m == pos_managers'[PosSymbol]
              against == IF ev'.side = "Buy" THEN -1 ELSE 1
          IN  /\ ev'.order = "entry" /\ ev'.filled
              /\ m.side = ev'.side
              /\ m.qty = C12_Requested'
              /\ m.entry_price = ev'.price * PriceDen
              /\ m.entry_time = now
              /\ m.add_count = 0
              /\ ~m.trailing_active
              /\ m.trailing_high = ev'.price
              /\ m.running_high_price = ev'.price
              /\ m.running_low_price = ev'.price
              /\ ev'.stop_ok
                    => /\ server_stops'[PosSymbol].sl * PctDen
                            = ev'.price * (PctDen + against * STOP_LOSS_PCT)
                       /\ server_stops'[PosSymbol].tp * PctDen
                            = ev'.price * (PctDen - against * TAKE_PROFIT_PCT)]_vars

\* C17 witness: a short of 2 lots has just been opened at 1000 from a margin,
\* with the stop-loss at 1020 and the take-profit at 960 on the exchange.
C17_Witness ==
    /\ ev.op = "open_position" /\ ev.res = "OPEN"
    /\ ev.side = "Sell" /\ ev.qty = 0 /\ ev.stop_ok
    /\ pos_managers[PosSymbol].side = "Sell"
    /\ pos_managers[PosSymbol].qty = 2
    /\ server_stops[PosSymbol] = [sl |-> 1020, tp |-> 960]

\* C18: a set_trading_stop or update_stop_loss call that fails does not hold
\* the manager back: open_position and add_position whose order was filled
\* still return success and leave the manager with the position, the stops on
\* the exchange staying as they were; and check_exit, whether its own stop
\* update fails or the exchange holds no stop at all, still returns the
\* stop-loss, take-profit, trailing, reversal and time triggers by the rule
\* of C2 and, past the stop-loss and take-profit tests, keeps following the
\* trailing extreme.
C18_StopFailureDoesNotBlock ==
    [][LET m == pos_managers[PosSymbol]
           m2 == pos_managers'[PosSymbol]
       IN  /\ (ev'.op = "open_position" /\ ev'.filled /\ ~ev'.stop_ok)
               => /\ ev'.res = "OPEN"
                  /\ has_position(m2) /\ m2.side = ev'.side
                  /\ server_stops' = server_stops
           /\ (ev'.op = "add_position" /\ ev'.filled /\ ~ev'.stop_ok)
               => /\ ev'.res = "PYRAMID_ADD"
                  /\ has_position(m2) /\ m2.qty = m.qty + ev'.qty
                  /\ m2.add_count = m.add_count + 1
                  /\ server_stops' = server_stops
           /\ (ev'.op = "check_exit" /\ has_position(m)
                /\ (~ev'.stop_ok \/ server_stops[PosSymbol] = NoStops))
               => /\ ev'.res = C2_FirstTrigger(m, ev'.price, ev'.signal, now)
                  /\ (has_position(m2) /\ m2.trailing_active
                      /\ ev'.res \notin {"SL_HIT", "TP_HIT"})
                       => IF m.side = "Buy" THEN m2.trailing_high >= ev'.price
                          ELSE m2.trailing_high <= ev'.price
                  /\ (has_position(m2) /\ ~ev'.stop_ok)
                       => server_stops' = server_stops]_vars

\* C18 witness: a position whose stops could not be set at entry is held
\* without any stop on the exchange; check_exit has returned the stop-loss
\* for it, and the closing order was rejected.
C18_Witness ==
    /\ ev.op = "check_exit" /\ ev.res = "SL_HIT"
    /\ ev.order = "close" /\ ~ev.filled
    /\ has_position(pos_managers[PosSymbol])
    /\ server_stops[PosSymbol] = NoStops

\* C19: a successful add_position(price, qty_add) happens on a held position,
\* keeps its side, makes the quantity qty + qty_add and the entry price the
\* quantity-weighted average (entry_price x qty + price x qty_add) / (qty +
\* qty_add), which lies between the old entry price and the price of the add,
\* and raises the add count by exactly one; add_position on a manager without
\* a position fails without placing an order.
C19_AddAverages ==
    [][ev'.op = "add_position"
       => LET m == pos_managers[PosSymbol]
              m2 == pos_managers'[PosSymbol]
              add_price == ev'.price * PriceDen
          IN  /\ ev'.res = "PYRAMID_ADD"
                  => /\ has_position(m) /\ ev'.filled
                     /\ m2.side = m.side
                     /\ m2.qty = m.qty + ev'.qty
                     /\ m2.entry_price * m2.qty = m.entry_price * m.qty + add_price * ev'.qty
                     /\ Min(m.entry_price, add_price) <= m2.entry_price
                     /\ m2.entry_price <= Max(m.entry_price, add_price)
                     /\ m2.add_count = m.add_count + 1
              /\ ~has_position(m)
                  => /\ ev'.res = "PYRAMID_FAILED"
                     /\ ev'.order = ""
                     /\ UNCHANGED <<pos_managers, exchange, server_stops>>]_vars

\* C19 witness: 2 lots added at 1037 to a long of 2 lots from 1000 have made
\* it 4 lots at 1018.5.
C19_Witness ==
    /\ ev.op = "add_position" /\ ev.res = "PYRAMID_ADD"
    /\ ev.price = 1037 /\ ev.qty = 2
    /\ pos_managers[PosSymbol].side = "Buy"
    /\ pos_managers[PosSymbol].qty = 4
    /\ 2 * pos_managers[PosSymbol].entry_price = 2037 * PriceDen
    /\ pos_managers[PosSymbol].add_count = 1

\* C21: while a position is held, every check_exit call at a price (here: one
\* that returns no exit) takes that price into the running extremes: afterwards the running high is the larger
\* of the running high before and the price, and the running low the smaller
\* of the running low before and the price.
C21_ExtremesFollowEveryPrice ==
    [][(/\ ev'.op = "check_exit" /\ ev'.res = ""
        /\ has_position(pos_managers[PosSymbol])
        /\ has_position(pos_managers'[PosSymbol]))
       => /\ pos_managers'[PosSymbol].running_high_price
                = Max(pos_managers[PosSymbol].running_high_price, ev'.price)
          /\ pos_managers'[PosSymbol].running_low_price
                = Min(pos_managers[PosSymbol].running_low_price, ev'.price)]_vars

\* the fee of a round trip that ends at the take-profit price, in hundredths
\* of a percent of the margin: the fee rate on the entry value and on an exit
\* value (1 + TAKE_PROFIT_PCT) times as large, times the leverage
C29_RoundTripFeePct ==
    Trunc(LEVERAGE * FeeRateNum * (2 * PctDen + TAKE_PROFIT_PCT), PctDen * FeeRateDen)

\* C29: for a long opened at price P, a check_exit at exactly
\* P x (1 + TAKE_PROFIT_PCT / 100) returns TP_HIT, and when the close order is
\* filled the trade record's net_pnl_pct, which is what record_trade receives,
\* is TAKE_PROFIT_PCT minus the round-trip fee percentage, one record is
\* written and the manager is flat.
C29_RoundTrip ==
    [][(/\ ev'.op = "check_exit"
        /\ pos_managers[PosSymbol].side = "Buy"
        /\ pos_managers[PosSymbol].add_count = 0
        /\ ev'.price * PriceDen * PctDen
              = pos_managers[PosSymbol].entry_price * (PctDen + TAKE_PROFIT_PCT))
       => /\ ev'.res = "TP_HIT"
          /\ ev'.filled
             => /\ trade_data(pos_managers[PosSymbol], ev'.price, "TP_HIT").net_pnl_pct
                      = TAKE_PROFIT_PCT - C29_RoundTripFeePct
                /\ risk_mgr'.daily_pnl
                      = check_daily_reset(risk_mgr, now).daily_pnl
                        + TAKE_PROFIT_PCT - C29_RoundTripFeePct
                /\ risk_mgr'.daily_trade_count
                      = check_daily_reset(risk_mgr, now).daily_trade_count + 1
                /\ trades_logged' = trades_logged + 1
                /\ pos_managers'[PosSymbol] = MgrInit
                /\ exchange'[PosSymbol] = NoPos]_vars

\* C29 witness: the long opened at 1000 was closed by check_exit at 1040 with
\* TP_HIT; the manager is flat and the day's P&L is the trade's net P&L.
C29_Witness ==
    /\ ev.op = "check_exit" /\ ev.res = "TP_HIT" /\ ev.filled /\ ev.price = 1040
    /\ ~has_position(pos_managers[PosSymbol])
    /\ trades_logged = 1
    /\ risk_mgr.daily_pnl = TAKE_PROFIT_PCT - C29_RoundTripFeePct

\* C32: while trailing is active, check_exit and add_position never move
\* trailing_high in the adverse direction: never down for a long, never up for
\* a short.
C32_TrailingExtremeNeverAdverse ==
    [][(/\ ev'.op \in {"check_exit", "add_position"}
        /\ pos_managers[PosSymbol].trailing_active
        /\ pos_managers'[PosSymbol].trailing_active)
       => /\ pos_managers[PosSymbol].side = "Buy"
              => pos_managers'[PosSymbol].trailing_high
                    >= pos_managers[PosSymbol].trailing_high
          /\ pos_managers[PosSymbol].side = "Sell"
              => pos_managers'[PosSymbol].trailing_high
                    <= pos_managers[PosSymbol].trailing_high]_vars

\* C33: trailing is never active without a position (a freshly opened
\* position starts with it inactive); it becomes active exactly in a
\* check_exit that finds a profit of at least TRAILING_STOP_ACTIVATE_PCT and
\* below TAKE_PROFIT_PCT and leaves the position open; once active it stays
\* active for as long as the position is held, whatever the profit.
C33_TrailingSubMode ==
    [][LET m == pos_managers[PosSymbol]
           m2 == pos_managers'[PosSymbol]
           pnl == pct_change(m.entry_price, ev'.price * PriceDen, m.side)
           activates == /\ ENABLE_TRAILING_STOP
                        /\ ev'.op = "check_exit"
                        /\ pnl >= TRAILING_STOP_ACTIVATE_PCT
                        /\ pnl < TAKE_PROFIT_PCT
       IN  /\ ~has_position(m) => ~m.trailing_active /\ ~m2.trailing_active
           /\ ~has_position(m2) => ~m2.trailing_active
           /\ (has_position(m) /\ has_position(m2))
              => /\ m.trailing_active => m2.trailing_active
                 /\ ~m.trailing_active => (m2.trailing_active <=> activates)]_vars

\* C33 witness: a long whose trailing is active is checked at a price that
\* puts its profit below the activation threshold, stays open and is still
\* trailing.
C33_Witness ==
    /\ ev.op = "check_exit" /\ ev.res = ""
    /\ pos_managers[PosSymbol].side = "Buy"
    /\ pos_managers[PosSymbol].trailing_active
    /\ pct_change(pos_managers[PosSymbol].entry_price, ev.price * PriceDen, "Buy")
          < TRAILING_STOP_ACTIVATE_PCT

-----------------------------------------------------------------------------
(* Claims about reconciliation, checked under SpecSync                      *)

\* C13: when the manager holds no position and the exchange reports one,
\* sync_with_exchange makes the manager hold a position with the exchange's
\* side, size and entry price; it places no order, writes no trade record
\* and leaves the RiskManager as it was.
C13_AdoptsExchangePosition ==
    [][\A s \in Symbols :
          (/\ ev'.op = "sync_with_exchange" /\ ev'.sym = s
           /\ ~has_position(pos_managers[s])
           /\ exchange[s].size > 0)
          => /\ has_position(pos_managers'[s])
             /\ pos_managers'[s].side = exchange[s].side
             /\ pos_managers'[s].qty = exchange[s].size
             /\ pos_managers'[s].entry_price = exchange[s].entry_price
             /\ ev'.order = ""
             /\ exchange' = exchange
             /\ risk_mgr' = risk_mgr
             /\ trades_logged' = trades_logged]_vars

\* C13 witness: sync_with_exchange has just adopted a short of 3 lots at 960
\* that was opened outside the bot.
C13_Witness ==
    /\ ev.op = "sync_with_exchange" /\ ev.res = "adopt"
    /\ pos_managers[ev.sym].side = "Sell"
    /\ pos_managers[ev.sym].qty = 3
    /\ pos_managers[ev.sym].entry_price = 960 * PriceDen
    /\ exchange[ev.sym].size = 3

\* the gain of manager m's position at price, in units of 1 / PriceDen tick
C14_Gain(m, price) ==
    IF m.side = "Buy" THEN price * PriceDen - m.entry_price
    ELSE m.entry_price - price * PriceDen

\* the reason a position found gone is logged with: P&L at the ticker's price
\* against half the stop-loss and half the take-profit percentage, compared
\* without rounding
C14_Reason(m, price) ==
    IF 2 * C14_Gain(m, price) * PctDen <= -STOP_LOSS_PCT * m.entry_price THEN "SERVER_SL"
    ELSE IF 2 * C14_Gain(m, price) * PctDen >= TAKE_PROFIT_PCT * m.entry_price
    THEN "SERVER_TP"
    ELSE "SERVER_CLOSE"

\* C14: when the manager holds a position and the exchange reports none,
\* sync_with_exchange writes one trade record and leaves the manager without
\* a position; the record's exit reason is SERVER_SL when the P&L at the
\* ticker's price is at most -STOP_LOSS_PCT / 2, else SERVER_TP when it is at
\* least TAKE_PROFIT_PCT / 2, else SERVER_CLOSE.
C14_ServerCloseClassified ==
    [][\A s \in Symbols :
          (/\ ev'.op = "sync_with_exchange" /\ ev'.sym = s
           /\ has_position(pos_managers[s])
           /\ exchange[s].size = 0)
          => /\ pos_managers'[s] = MgrInit
             /\ trades_logged' = trades_logged + 1
             /\ ev'.reason = C14_Reason(pos_managers[s], ev'.price)]_vars

\* C14 witness: a long from 1000 found gone at a ticker price of 990, exactly
\* half the stop-loss percentage down, has been logged as SERVER_SL.
C14_Witness ==
    /\ ev.op = "sync_with_exchange" /\ ev.reason = "SERVER_SL"
    /\ ev.price = 990
    /\ pos_managers[ev.sym] = MgrInit
    /\ trades_logged >= 1

\* the symbols whose manager gives up its position in the step
C15_Closed == {s \in Symbols : has_position(pos_managers[s]) /\ ~has_position(pos_managers'[s])}

\* C15: every step in which a manager goes from holding a position to holding
\* none (close_position with an accepted order, or sync_with_exchange finding
\* the position gone) writes exactly one trade record and counts exactly one
\* trade in the RiskManager, after the daily reset if the day has changed, and
\* leaves every per-position field at its reset value; no other step writes
\* or counts one.  So as long as no daily reset has happened, the daily trade
\* count is the number of positions closed over all symbols.
C15_OneRecordPerClosure ==
    [][/\ trades_logged' = trades_logged + Cardinality(C15_Closed)
       /\ risk_mgr'.daily_trade_count
             = (IF risk_mgr'.daily_reset_date # risk_mgr.daily_reset_date
                THEN 0 ELSE risk_mgr.daily_trade_count) + Cardinality(C15_Closed)
       /\ \A s \in C15_Closed : pos_managers'[s] = MgrInit
       /\ (risk_mgr'.daily_reset_date = Today(0)
            => risk_mgr'.daily_trade_count = trades_logged')]_vars

\* C15 witness: two positions have been closed on the same day, the second one
\* by sync_with_exchange, and the daily trade count is two.
C15_Witness ==
    /\ ev.op = "sync_with_exchange" /\ ev.reason # ""
    /\ trades_logged = 2
    /\ risk_mgr.daily_trade_count = 2
    /\ \A s \in Symbols : pos_managers[s] = MgrInit

\* C34: right after sync_with_exchange has adopted a position, the manager is
\* in the state open_position leaves for that side, quantity and entry price:
\* running high, running low and trailing extreme at the entry price,
\* trailing inactive, no adds.
C34_AdoptedAsFreshlyOpened ==
    [][\A s \in Symbols :
          (ev'.op = "sync_with_exchange" /\ ev'.sym = s /\ ev'.res = "adopt")
          => LET m == pos_managers'[s]
             IN  /\ m.running_high_price * PriceDen = m.entry_price
                 /\ m.running_low_price * PriceDen = m.entry_price
                 /\ m.trailing_high * PriceDen = m.entry_price
                 /\ ~m.trailing_active
                 /\ m.add_count = 0]_vars

\* C35: a trade recorded by reconciliation carries one of the reasons
\* SERVER_SL, SERVER_TP, SERVER_CLOSE; the RiskManager adds one to the day's
\* trade count and the trade's net P&L to the day's P&L (both taken after the
\* daily reset when the date has changed), sets the stop-loss streak to 0,
\* appends no stop-loss time and leaves the cooldown as it was.
C35_ServerCloseIsNoStopLoss ==
    [][(ev'.op = "sync_with_exchange" /\ ev'.reason # "")
       => LET same_day == risk_mgr'.daily_reset_date = risk_mgr.daily_reset_date
              net == trade_data(pos_managers[ev'.sym], ev'.price, ev'.reason).net_pnl_pct
          IN  /\ ev'.reason \in {"SERVER_SL", "SERVER_TP", "SERVER_CLOSE"}
              /\ risk_mgr'.daily_trade_count
                    = (IF same_day THEN risk_mgr.daily_trade_count ELSE 0) + 1
              /\ risk_mgr'.daily_pnl = (IF same_day THEN risk_mgr.daily_pnl ELSE 0) + net
              /\ risk_mgr'.consecutive_sl = 0
              /\ risk_mgr'.last_sl_times
                    = (IF same_day THEN risk_mgr.last_sl_times ELSE <<>>)
              /\ risk_mgr'.cooldown_until
                    = (IF same_day THEN risk_mgr.cooldown_until ELSE NoTime)]_vars

\* C35 witness: after a software stop-loss earlier the same day, a position
\* that the exchange closed at a loss has been recorded as SERVER_SL: two
\* trades counted, the streak back at 0, one stop-loss time, no cooldown.
C35_Witness ==
    /\ ev.op = "sync_with_exchange" /\ ev.reason = "SERVER_SL"
    /\ risk_mgr.daily_trade_count = 2
    /\ risk_mgr.consecutive_sl = 0
    /\ Len(risk_mgr.last_sl_times) = 1
    /\ risk_mgr.cooldown_until = NoTime

\* C36: a manager without a position is in the state of a freshly
\* constructed one: quantity, entry price and add count 0, trailing inactive,
\* trade id and entry time unset, extremes at their initial values.
C36_FlatIsInitial ==
    \A s \in Symbols :
       ~has_position(pos_managers[s])
       => /\ pos_managers[s].qty = 0
          /\ pos_managers[s].entry_price = 0
          /\ pos_managers[s].add_count = 0
          /\ ~pos_managers[s].trailing_active
          /\ pos_managers[s].trade_id = NoTime
          /\ pos_managers[s].entry_time = NoTime
          /\ pos_managers[s] = MgrInit

\* C36 witness: a position the bot had opened on the first symbol was found
\* gone from the exchange by sync_with_exchange, after an earlier position
\* had been closed by the bot, and the manager is back in its initial state.
C36_Witness ==
    /\ ev.op = "sync_with_exchange" /\ ev.reason # ""
    /\ ev.sym = SymbolList[1]
    /\ trades_logged = 2
    /\ ~has_position(pos_managers[ev.sym])
    /\ pos_managers[ev.sym] = MgrInit

====
